---------------------------- MODULE Spec2Model ----------------------------
(***************************************************************************)
(* Model of the WORKWAY workflow validator                                 *)
(* (packages/rust-validator/src/{patterns,validator,lib}.rs).              *)
(*                                                                         *)
(* Texts are TLA+ strings; TLC applies Len, SubSeq and \o to them, so a    *)
(* text is handled character by character.  A pattern of patterns.rs is a  *)
(* regular-expression syntax tree transcribed from its literal, and        *)
(* matching is computed by Runs, the list of the ways a match that starts  *)
(* at a given offset can end, in the matcher's order of preference.        *)
(*                                                                         *)
(* Two characters of the source cannot be written in a TLA+ string: the    *)
(* backtick (third member of the quote class ['"`]) and the vertical tab   *)
(* (a member of \s).  Non-ASCII whitespace and digits, which \s, \d and    *)
(* split_whitespace also accept, are not written either.  The texts of     *)
(* the model contain none of them.                                         *)
(***************************************************************************)
EXTENDS Integers, Sequences, FiniteSets, TLC

(***************************************************************************)
(* Characters                                                              *)
(***************************************************************************)
Char(s, i) == SubSeq(s, i, i)

Whitespace == {" ", "\t", "\n", "\r", "\f"}

Digits == {"0", "1", "2", "3", "4", "5", "6", "7", "8", "9"}

DigitVal ==
  [c \in Digits |->
     CASE c = "0" -> 0 [] c = "1" -> 1 [] c = "2" -> 2 [] c = "3" -> 3
       [] c = "4" -> 4 [] c = "5" -> 5 [] c = "6" -> 6 [] c = "7" -> 7
       [] c = "8" -> 8 [] c = "9" -> 9]

LowerLetters ==
  {"a", "b", "c", "d", "e", "f", "g", "h", "i", "j", "k", "l", "m",
   "n", "o", "p", "q", "r", "s", "t", "u", "v", "w", "x", "y", "z"}

UpperLetters ==
  {"A", "B", "C", "D", "E", "F", "G", "H", "I", "J", "K", "L", "M",
   "N", "O", "P", "Q", "R", "S", "T", "U", "V", "W", "X", "Y", "Z"}

LowerOf ==
  [c \in UpperLetters |->
     CASE c = "A" -> "a" [] c = "B" -> "b" [] c = "C" -> "c" [] c = "D" -> "d"
       [] c = "E" -> "e" [] c = "F" -> "f" [] c = "G" -> "g" [] c = "H" -> "h"
       [] c = "I" -> "i" [] c = "J" -> "j" [] c = "K" -> "k" [] c = "L" -> "l"
       [] c = "M" -> "m" [] c = "N" -> "n" [] c = "O" -> "o" [] c = "P" -> "p"
       [] c = "Q" -> "q" [] c = "R" -> "r" [] c = "S" -> "s" [] c = "T" -> "t"
       [] c = "U" -> "u" [] c = "V" -> "v" [] c = "W" -> "w" [] c = "X" -> "x"
       [] c = "Y" -> "y" [] c = "Z" -> "z"]

\* char::to_lowercase on the characters of the model's texts
LowerChar(c) == IF c \in UpperLetters THEN LowerOf[c] ELSE c

RECURSIVE to_lowercase(_)
to_lowercase(s) ==
  IF s = "" THEN "" ELSE LowerChar(Char(s, 1)) \o to_lowercase(Tail(s))

(***************************************************************************)
(* Regular expressions (crate regex): syntax trees and matching.           *)
(* The crate finds the leftmost match and, among the matches that start    *)
(* there, the one a backtracking search would find first: alternatives in  *)
(* order, a greedy repetition preferring more iterations and a lazy one    *)
(* fewer.  Runs lists the ways a pattern can match from an offset in that  *)
(* order of preference.  Only capture group 1 is ever read by the          *)
(* validator, so Grp marks that group and the others are not recorded.     *)
(***************************************************************************)
Lit(s)        == [t |-> "lit", s |-> s]                \* literal text
ILit(s)       == [t |-> "ilit", s |-> s]               \* literal under (?i)
Cls(cs)       == [t |-> "cls", cs |-> cs]              \* [...]
NCls(cs)      == [t |-> "ncls", cs |-> cs]             \* [^...]
Dot           == [t |-> "ncls", cs |-> {"\n"}]         \* . without (?s)
AnyChar       == [t |-> "ncls", cs |-> {}]             \* [\s\S]
Cat(rs)       == [t |-> "cat", rs |-> rs]              \* r1 r2 ...
Alt(rs)       == [t |-> "alt", rs |-> rs]              \* r1|r2|...
AtLeast(r, n) == [t |-> "rep", r |-> r, n |-> n, greedy |-> TRUE]  \* r{n,}
Star(r)       == AtLeast(r, 0)                         \* r*
Plus(r)       == AtLeast(r, 1)                         \* r+
LazyStar(r)   == [t |-> "rep", r |-> r, n |-> 0, greedy |-> FALSE] \* r*?
Opt(r)        == Alt(<<r, Lit("")>>)                   \* r?
Grp(r)        == [t |-> "grp", r |-> r]                \* ( r ), group 1
Bol           == [t |-> "bol"]                         \* ^
Eol           == [t |-> "eol"]                         \* $

ReSpace == Cls(Whitespace)                             \* \s
ReDigit == Cls(Digits)                                 \* \d
Quote   == Cls({"'", "\""})                            \* ['"`]
NoQuote == NCls({"'", "\""})                           \* [^'"`]

\* Option<T>
None == <<>>

Some(v) == <<v>>

\* a position of a search: the offset reached, and the span of group 1
At(i) == [p |-> i, g |-> None]

\* the first occurrence of every element of q, in the order of q
RECURSIVE Dedup(_, _, _)
Dedup(q, k, seen) ==
  IF k > Len(q) THEN <<>>
  ELSE IF q[k] \in seen THEN Dedup(q, k + 1, seen)
  ELSE <<q[k]>> \o Dedup(q, k + 1, seen \cup {q[k]})

\* the number of consecutive characters after offset i that are in the
\* class c
RECURSIVE RunLen(_, _, _)
RunLen(c, s, i) ==
  IF i < Len(s) /\ ((Char(s, i + 1) \in c.cs) <=> (c.t = "cls"))
  THEN 1 + RunLen(c, s, i + 1) ELSE 0

\* a repeated character class: every length from n up to the length len of
\* the run of such characters, longest first if greedy
ClassRuns(r, st, len) ==
  [k \in 1..(len - r.n + 1) |->
     [st EXCEPT !.p = IF r.greedy THEN st.p + len - k + 1
                      ELSE st.p + r.n + k - 1]]

\* a repetition: one more round (more), or stopping here if no round is
\* owed; the rounds first if greedy
RepRuns(r, st, more) ==
  Dedup(IF r.greedy THEN more \o (IF r.n = 0 THEN <<st>> ELSE <<>>)
        ELSE (IF r.n = 0 THEN <<st>> ELSE <<>>) \o more, 1, {})

\* group 1 spans from st to the end of each run of its content
GroupRuns(st, inner) ==
  [k \in 1..Len(inner) |->
     [inner[k] EXCEPT !.g = Some(<<st.p, inner[k].p>>)]]

RECURSIVE Runs(_, _, _)
RECURSIVE RunsFrom(_, _, _, _)
RECURSIVE AltRuns(_, _, _, _)
RECURSIVE CatRuns(_, _, _, _)

\* the positions at which a match of r that starts at position st can end,
\* most preferred first
Runs(r, s, st) ==
  CASE r.t = "lit" ->
         IF /\ st.p + Len(r.s) <= Len(s)
            /\ SubSeq(s, st.p + 1, st.p + Len(r.s)) = r.s
         THEN <<[st EXCEPT !.p = st.p + Len(r.s)]>> ELSE <<>>
    [] r.t = "ilit" ->
         IF /\ st.p + Len(r.s) <= Len(s)
            /\ \A k \in 1..Len(r.s) :
                 LowerChar(Char(s, st.p + k)) = LowerChar(Char(r.s, k))
         THEN <<[st EXCEPT !.p = st.p + Len(r.s)]>> ELSE <<>>
    [] r.t = "cls" ->
         IF st.p < Len(s) /\ Char(s, st.p + 1) \in r.cs
         THEN <<[st EXCEPT !.p = st.p + 1]>> ELSE <<>>
    [] r.t = "ncls" ->
         IF st.p < Len(s) /\ Char(s, st.p + 1) \notin r.cs
         THEN <<[st EXCEPT !.p = st.p + 1]>> ELSE <<>>
    [] r.t = "cat" -> CatRuns(r.rs, 1, s, <<st>>)
    [] r.t = "alt" -> Dedup(AltRuns(r.rs, 1, s, st), 1, {})
    [] r.t = "rep" ->
         IF r.r.t \in {"cls", "ncls"}
         THEN ClassRuns(r, st, RunLen(r.r, s, st.p))
         ELSE RepRuns(r, st,
                RunsFrom([r EXCEPT !.n = IF r.n > 0 THEN r.n - 1 ELSE 0], s,
                         SelectSeq(Runs(r.r, s, st), LAMBDA e : e.p > st.p),
                         1))
    [] r.t = "grp" -> GroupRuns(st, Runs(r.r, s, st))
    [] r.t = "bol" -> IF st.p = 0 THEN <<st>> ELSE <<>>
    [] r.t = "eol" -> IF st.p = Len(s) THEN <<st>> ELSE <<>>

\* the runs of r from each of the positions sts[k], sts[k+1], ..
RunsFrom(r, s, sts, k) ==
  IF k > Len(sts) THEN <<>>
  ELSE Runs(r, s, sts[k]) \o RunsFrom(r, s, sts, k + 1)

AltRuns(rs, k, s, st) ==
  IF k > Len(rs) THEN <<>>
  ELSE Runs(rs[k], s, st) \o AltRuns(rs, k + 1, s, st)

CatRuns(rs, k, s, sts) ==
  IF k > Len(rs) \/ sts = <<>> THEN sts
  ELSE CatRuns(rs, k + 1, s, Dedup(RunsFrom(rs[k], s, sts, 1), 1, {}))

Min(S) == CHOOSE x \in S : \A y \in S : x <= y

\* the leftmost match that starts at offset i or later: None, or
\* Some([start, end, g]) where g is the span of group 1 (None if it did not
\* take part)
MatchAt(j, first) == Some([start |-> j, end |-> first.p, g |-> first.g])

FirstOf(r, s, starts) ==
  IF starts = {} THEN None
  ELSE MatchAt(Min(starts), Runs(r, s, At(Min(starts)))[1])

FindAt(r, s, i) ==
  FirstOf(r, s, {j \in i..Len(s) : Runs(r, s, At(j)) # <<>>})

\* Regex::is_match
is_match(r, s) == \E i \in 0..Len(s) : Runs(r, s, At(i)) # <<>>

\* Regex::captures(..) followed by caps.get(1).map(|m| m.as_str()):
\* None when the pattern does not match, else Some(text of group 1)
GroupText(s, m) ==
  IF m = None \/ m[1].g = None THEN None
  ELSE Some(SubSeq(s, m[1].g[1][1] + 1, m[1].g[1][2]))

captures1(r, s) == GroupText(s, FindAt(r, s, 0))

\* Regex::find_iter / captures_iter: the successive non-overlapping matches
RECURSIVE MatchesFrom(_, _, _)
RECURSIVE MatchesAfter(_, _, _)
\* the match m, then the matches after it: past its end, or one character
\* on if it is empty
MatchesAfter(r, s, m) ==
  IF m = None THEN <<>>
  ELSE <<m[1]>> \o MatchesFrom(r, s, IF m[1].end > m[1].start
                                     THEN m[1].end ELSE m[1].end + 1)

MatchesFrom(r, s, i) == MatchesAfter(r, s, FindAt(r, s, i))

find_iter(r, s) == MatchesFrom(r, s, 0)

\* captures_iter(..) with caps.get(1) of every match
GroupTexts(s, ms) ==
  [k \in 1..Len(ms) |-> SubSeq(s, ms[k].g[1][1] + 1, ms[k].g[1][2])]

captures_iter1(r, s) ==
  GroupTexts(s, SelectSeq(find_iter(r, s), LAMBDA m : m.g # None))

\* str::contains
contains(s, sub) ==
  \E i \in 0..(Len(s) - Len(sub)) : SubSeq(s, i + 1, i + Len(sub)) = sub

(***************************************************************************)
(* patterns.rs: the patterns built by Lazy::new closures                   *)
(***************************************************************************)
Ws == Star(ReSpace)                                    \* \s*

\* the marker as a whole quoted module name: '@workway/sdk'
SDK_IMPORT_Quoted == Cat(<<Quote, Lit("@workway/sdk"), Quote>>)

\* @workway/sdk
SDK_IMPORT == Lit("@workway/sdk")

\* the markers of AI usage without workers-ai
AI_USAGE_NoWorkersAi ==
  Alt(<<Lit("createAIClient"), Lit("AIModels"), Lit("env.AI")>>)

\* createAIClient|AIModels|env\.AI|workers-ai
AI_USAGE ==
  Alt(<<Lit("createAIClient"), Lit("AIModels"), Lit("env.AI"),
        Lit("workers-ai")>>)

\* @workway/sdk/workers-ai
WORKERS_AI_IMPORT == Lit("@workway/sdk/workers-ai")

\* defineWorkflow\s*\(
DEFINE_WORKFLOW == Cat(<<Lit("defineWorkflow"), Ws, Lit("(")>>)

\* export\s+default
EXPORT_DEFAULT == Cat(<<Lit("export"), Plus(ReSpace), Lit("default")>>)

\* name:\s*['"`]([^'"`]+)['"`]
WORKFLOW_NAME ==
  Cat(<<Lit("name:"), Ws, Quote, Grp(Plus(NoQuote)), Quote>>)

\* type:\s*['"`](integration|ai-enhanced|ai-native)['"`]
WORKFLOW_TYPE ==
  Cat(<<Lit("type:"), Ws, Quote,
        Grp(Alt(<<Lit("integration"), Lit("ai-enhanced"), Lit("ai-native")>>)),
        Quote>>)

\* execute as an object key only: execute\s*:
HAS_EXECUTE_KeyOnly == Cat(<<Lit("execute"), Ws, Lit(":")>>)

\* execute\s*[:(]|async\s+execute
HAS_EXECUTE ==
  Alt(<<Cat(<<Lit("execute"), Ws, Cls({":", "("})>>),
        Cat(<<Lit("async"), Plus(ReSpace), Lit("execute")>>)>>)

\* run\s*[:(]|async\s+run
HAS_RUN ==
  Alt(<<Cat(<<Lit("run"), Ws, Cls({":", "("})>>),
        Cat(<<Lit("async"), Plus(ReSpace), Lit("run")>>)>>)

\* (?s)execute\s*\([^)]*\)\s*\{([^}]+(?:\{[^}]*\}[^}]*)*)\}
EXECUTE_BODY ==
  Cat(<<Lit("execute"), Ws, Lit("("), Star(NCls({")"})), Lit(")"), Ws,
        Lit("{"),
        Grp(Cat(<<Plus(NCls({"}"})),
                  Star(Cat(<<Lit("{"), Star(NCls({"}"})), Lit("}"),
                             Star(NCls({"}"}))>>))>>)),
        Lit("}")>>)

\* (?s)integrations:\s*\[([\s\S]*?)\]
INTEGRATIONS_BLOCK ==
  Cat(<<Lit("integrations:"), Ws, Lit("["), Grp(LazyStar(AnyChar)),
        Lit("]")>>)

\* service:\s*['"`]([^'"`]+)['"`]
SERVICE_NAMES ==
  Cat(<<Lit("service:"), Ws, Quote, Grp(Plus(NoQuote)), Quote>>)

\* ['"`]([a-z-]+)['"`]
SHORTHAND_INTEGRATIONS ==
  Cat(<<Quote, Grp(Plus(Cls(LowerLetters \cup {"-"}))), Quote>>)

\* a marker that a call of webhook or schedule satisfies as well
HAS_TRIGGER_OrCall ==
  Alt(<<Cat(<<Lit("trigger:"), Ws>>), Lit("webhook("), Lit("schedule(")>>)

\* trigger:\s*
HAS_TRIGGER == Cat(<<Lit("trigger:"), Ws>>)

\* trigger:\s*(webhook|schedule|manual|poll)\s*\(
TRIGGER_TYPE ==
  Cat(<<Lit("trigger:"), Ws,
        Grp(Alt(<<Lit("webhook"), Lit("schedule"), Lit("manual"),
                  Lit("poll")>>)),
        Ws, Lit("(")>>)

\* trigger:\s*\{\s*type:\s*['"`]([^'"`]+)['"`]
TRIGGER_OBJECT_TYPE ==
  Cat(<<Lit("trigger:"), Ws, Lit("{"), Ws, Lit("type:"), Ws, Quote,
        Grp(Plus(NoQuote)), Quote>>)

\* webhook\s*\(\s*\{([^}]+)\}
WEBHOOK_CONFIG ==
  Cat(<<Lit("webhook"), Ws, Lit("("), Ws, Lit("{"), Grp(Plus(NCls({"}"}))),
        Lit("}")>>)

\* schedule\s*\(\s*['"`]([^'"`]+)['"`]
SCHEDULE_EXPR ==
  Cat(<<Lit("schedule"), Ws, Lit("("), Ws, Quote, Grp(Plus(NoQuote)),
        Quote>>)

\* pricing:\s*\{
HAS_PRICING == Cat(<<Lit("pricing:"), Ws, Lit("{")>>)

\* model:\s*['"`](subscription|usage|one-time)['"`]
PRICING_MODEL ==
  Cat(<<Lit("model:"), Ws, Quote,
        Grp(Alt(<<Lit("subscription"), Lit("usage"), Lit("one-time")>>)),
        Quote>>)

\* price:\s*(\d+(?:\.\d+)?)
PRICING_PRICE ==
  Cat(<<Lit("price:"), Ws,
        Grp(Cat(<<Plus(ReDigit), Opt(Cat(<<Lit("."), Plus(ReDigit)>>))>>))>>)

\* executions:\s*(\d+|'unlimited')
HAS_EXECUTIONS ==
  Cat(<<Lit("executions:"), Ws, Alt(<<Plus(ReDigit), Lit("'unlimited'")>>)>>)

\* (?i)claude|gpt-4|openai|anthropic|gemini
EXTERNAL_AI_CaseSensitive ==
  Alt(<<Lit("claude"), Lit("gpt-4"), Lit("openai"), Lit("anthropic"),
        Lit("gemini")>>)

EXTERNAL_AI ==
  Alt(<<ILit("claude"), ILit("gpt-4"), ILit("openai"), ILit("anthropic"),
        ILit("gemini")>>)

\* env\s*[,})]|context\.env|\{ env \}
ENV_ACCESS ==
  Alt(<<Cat(<<Lit("env"), Ws, Cls({",", "}", ")"})>>), Lit("context.env"),
        Lit("{ env }")>>)

\* console\.(log|error|warn)
CONSOLE_STATEMENTS ==
  Cat(<<Lit("console."), Alt(<<Lit("log"), Lit("error"), Lit("warn")>>)>>)

\* (?s)<keyword>\s*\([^)]+\)\s*\{[^}]*await[^}]*\}
AwaitInLoop(keyword) ==
  Cat(<<Lit(keyword), Ws, Lit("("), Plus(NCls({")"})), Lit(")"), Ws,
        Lit("{"), Star(NCls({"}"})), Lit("await"), Star(NCls({"}"})),
        Lit("}")>>)

\* (?s)for\s*\([^)]+\)\s*\{[^}]*await[^}]*\}
AWAIT_IN_FOR_LOOP == AwaitInLoop("for")

\* (?s)while\s*\([^)]+\)\s*\{[^}]*await[^}]*\}
AWAIT_IN_WHILE_LOOP == AwaitInLoop("while")

\* (?s)catch\s*\([^)]*\)\s*\{\s*\}
EMPTY_CATCH ==
  Cat(<<Lit("catch"), Ws, Lit("("), Star(NCls({")"})), Lit(")"), Ws,
        Lit("{"), Ws, Lit("}")>>)

\* \s*[:=]\s*['"`][^'"`]{n,}['"`]
SecretLiteral(n) ==
  <<Ws, Cls({":", "="}), Ws, Quote, AtLeast(NoQuote, n), Quote>>

\* (?i)api[_-]?key\s*[:=]\s*['"`][^'"`]{20,}['"`]
SECRET_API_KEY ==
  Cat(<<ILit("api"), Opt(Cls({"_", "-"})), ILit("key")>> \o SecretLiteral(20))

\* (?i)secret\s*[:=]\s*['"`][^'"`]{20,}['"`]
SECRET_SECRET == Cat(<<ILit("secret")>> \o SecretLiteral(20))

\* (?i)password\s*[:=]\s*['"`][^'"`]+['"`]
SECRET_PASSWORD == Cat(<<ILit("password")>> \o SecretLiteral(1))

\* (?i)token\s*[:=]\s*['"`][^'"`]{20,}['"`]
SECRET_TOKEN == Cat(<<ILit("token")>> \o SecretLiteral(20))

(***************************************************************************)
(* patterns.rs: cron patterns                                              *)
(***************************************************************************)
\* ^\*/\d+$
CRON_STEP_WILDCARD == Cat(<<Bol, Lit("*/"), Plus(ReDigit), Eol>>)

\* \d+(-\d+)?
CronSegment == Cat(<<Plus(ReDigit), Opt(Cat(<<Lit("-"), Plus(ReDigit)>>))>>)

\* ^\d+(-\d+)?(,\d+(-\d+)?)*$
CRON_RANGE_LIST ==
  Cat(<<Bol, CronSegment, Star(Cat(<<Lit(","), CronSegment>>)), Eol>>)

\* (\/(0|[1-9][0-9]?))?
CronStepSuffix ==
  Opt(Cat(<<Lit("/"),
            Alt(<<Lit("0"),
                  Cat(<<Cls(Digits \ {"0"}), Opt(Cls(Digits))>>)>>)>>))

\* ^(\*|<values>)(\/(0|[1-9][0-9]?))?$|^\*/[0-9]+$
CronFieldPattern(values) ==
  Alt(<<Cat(<<Bol, Alt(<<Lit("*")>> \o values), CronStepSuffix, Eol>>),
        Cat(<<Bol, Lit("*/"), Plus(Cls(Digits)), Eol>>)>>)

\* ^(\*|[0-9]|[1-5][0-9])(\/(0|[1-9][0-9]?))?$|^\*/[0-9]+$
CRON_MINUTE ==
  CronFieldPattern(<<Cls(Digits),
                     Cat(<<Cls({"1", "2", "3", "4", "5"}), Cls(Digits)>>)>>)

\* ^(\*|[0-9]|1[0-9]|2[0-3])(\/(0|[1-9][0-9]?))?$|^\*/[0-9]+$
CRON_HOUR ==
  CronFieldPattern(<<Cls(Digits),
                     Cat(<<Lit("1"), Cls(Digits)>>),
                     Cat(<<Lit("2"), Cls({"0", "1", "2", "3"})>>)>>)

\* a day field whose values start at 0
CRON_DAY_FromZero ==
  CronFieldPattern(<<Cls(Digits),
                     Cat(<<Cls({"1", "2"}), Cls(Digits)>>),
                     Cat(<<Lit("3"), Cls({"0", "1"})>>)>>)

\* ^(\*|[1-9]|[12][0-9]|3[01])(\/(0|[1-9][0-9]?))?$|^\*/[0-9]+$
CRON_DAY ==
  CronFieldPattern(<<Cls(Digits \ {"0"}),
                     Cat(<<Cls({"1", "2"}), Cls(Digits)>>),
                     Cat(<<Lit("3"), Cls({"0", "1"})>>)>>)

\* ^(\*|[1-9]|1[0-2])(\/(0|[1-9][0-9]?))?$|^\*/[0-9]+$
CRON_MONTH ==
  CronFieldPattern(<<Cls(Digits \ {"0"}),
                     Cat(<<Lit("1"), Cls({"0", "1", "2"})>>)>>)

\* ^(\*|[0-6])(\/(0|[1-9][0-9]?))?$|^\*/[0-9]+$
CRON_WEEKDAY ==
  CronFieldPattern(<<Cls({"0", "1", "2", "3", "4", "5", "6"})>>)

(***************************************************************************)
(* patterns.rs: blocked modules and known integrations                     *)
(***************************************************************************)
\* (import\s+.*from\s+['"`]{0}['"`])|(require\s*\(\s*['"`]{0}['"`]\s*\))
\* where {0} is regex::escape(module): the escaped name, read back by
\* Regex::new, matches exactly the characters of module
blocked_module_pattern(module) ==
  Alt(<<Cat(<<Lit("import"), Plus(ReSpace), Star(Dot), Lit("from"),
              Plus(ReSpace), Quote, Lit(module), Quote>>),
        Cat(<<Lit("require"), Ws, Lit("("), Ws, Quote, Lit(module), Quote,
              Ws, Lit(")")>>)>>)

BLOCKED_NODE_MODULES ==
  <<"fs", "path", "child_process", "os", "net", "http", "https",
    "stream", "buffer", "crypto", "util", "events", "cluster",
    "dns", "readline", "tty", "vm", "zlib", "worker_threads",
    "perf_hooks", "async_hooks">>

BLOCKED_NPM_PACKAGES ==
  <<"axios", "request", "node-fetch", "express", "bcrypt",
    "sharp", "puppeteer", "mongoose", "pg", "mysql", "redis">>

KNOWN_INTEGRATIONS ==
  <<"gmail", "slack", "notion", "stripe", "github", "salesforce",
    "airtable", "zendesk", "hubspot", "linear", "discord", "telegram",
    "sendgrid", "resend", "mailchimp", "paypal", "square", "pipedrive",
    "gitlab", "google-workspace", "google-calendar", "google-drive",
    "google-sheets">>

\* the names of the Lazy<Regex> statics, in declaration order
LazyNames ==
  <<"SDK_IMPORT", "AI_USAGE", "WORKERS_AI_IMPORT", "DEFINE_WORKFLOW",
    "EXPORT_DEFAULT", "WORKFLOW_NAME", "WORKFLOW_TYPE", "HAS_EXECUTE",
    "HAS_RUN", "EXECUTE_BODY", "INTEGRATIONS_BLOCK", "SERVICE_NAMES",
    "SHORTHAND_INTEGRATIONS", "HAS_TRIGGER", "TRIGGER_TYPE",
    "TRIGGER_OBJECT_TYPE", "WEBHOOK_CONFIG", "SCHEDULE_EXPR", "HAS_PRICING",
    "PRICING_MODEL", "PRICING_PRICE", "HAS_EXECUTIONS", "EXTERNAL_AI",
    "ENV_ACCESS", "CONSOLE_STATEMENTS", "AWAIT_IN_FOR_LOOP",
    "AWAIT_IN_WHILE_LOOP", "EMPTY_CATCH", "SECRET_API_KEY", "SECRET_SECRET",
    "SECRET_PASSWORD", "SECRET_TOKEN", "CRON_STEP_WILDCARD",
    "CRON_RANGE_LIST", "CRON_MINUTE", "CRON_HOUR", "CRON_DAY", "CRON_MONTH",
    "CRON_WEEKDAY">>

LazySet == {LazyNames[k] : k \in 1..Len(LazyNames)}

\* the value every static holds once its closure has run
Patterns ==
  [SDK_IMPORT |-> SDK_IMPORT, AI_USAGE |-> AI_USAGE,
   WORKERS_AI_IMPORT |-> WORKERS_AI_IMPORT,
   DEFINE_WORKFLOW |-> DEFINE_WORKFLOW, EXPORT_DEFAULT |-> EXPORT_DEFAULT,
   WORKFLOW_NAME |-> WORKFLOW_NAME, WORKFLOW_TYPE |-> WORKFLOW_TYPE,
   HAS_EXECUTE |-> HAS_EXECUTE, HAS_RUN |-> HAS_RUN,
   EXECUTE_BODY |-> EXECUTE_BODY, INTEGRATIONS_BLOCK |-> INTEGRATIONS_BLOCK,
   SERVICE_NAMES |-> SERVICE_NAMES,
   SHORTHAND_INTEGRATIONS |-> SHORTHAND_INTEGRATIONS,
   HAS_TRIGGER |-> HAS_TRIGGER, TRIGGER_TYPE |-> TRIGGER_TYPE,
   TRIGGER_OBJECT_TYPE |-> TRIGGER_OBJECT_TYPE,
   WEBHOOK_CONFIG |-> WEBHOOK_CONFIG, SCHEDULE_EXPR |-> SCHEDULE_EXPR,
   HAS_PRICING |-> HAS_PRICING, PRICING_MODEL |-> PRICING_MODEL,
   PRICING_PRICE |-> PRICING_PRICE, HAS_EXECUTIONS |-> HAS_EXECUTIONS,
   EXTERNAL_AI |-> EXTERNAL_AI, ENV_ACCESS |-> ENV_ACCESS,
   CONSOLE_STATEMENTS |-> CONSOLE_STATEMENTS,
   AWAIT_IN_FOR_LOOP |-> AWAIT_IN_FOR_LOOP,
   AWAIT_IN_WHILE_LOOP |-> AWAIT_IN_WHILE_LOOP, EMPTY_CATCH |-> EMPTY_CATCH,
   SECRET_API_KEY |-> SECRET_API_KEY, SECRET_SECRET |-> SECRET_SECRET,
   SECRET_PASSWORD |-> SECRET_PASSWORD, SECRET_TOKEN |-> SECRET_TOKEN,
   CRON_STEP_WILDCARD |-> CRON_STEP_WILDCARD,
   CRON_RANGE_LIST |-> CRON_RANGE_LIST, CRON_MINUTE |-> CRON_MINUTE,
   CRON_HOUR |-> CRON_HOUR, CRON_DAY |-> CRON_DAY, CRON_MONTH |-> CRON_MONTH,
   CRON_WEEKDAY |-> CRON_WEEKDAY]

(***************************************************************************)
(* validator.rs: is_valid_cron                                             *)
(***************************************************************************)
\* str::trim
RECURSIVE trim_start(_)
trim_start(s) ==
  IF s # "" /\ Char(s, 1) \in Whitespace THEN trim_start(Tail(s)) ELSE s

RECURSIVE trim_end(_)
trim_end(s) ==
  IF s # "" /\ Char(s, Len(s)) \in Whitespace
  THEN trim_end(SubSeq(s, 1, Len(s) - 1)) ELSE s

trim(s) == trim_end(trim_start(s))

\* str::split_whitespace: the maximal runs of non-whitespace characters
RECURSIVE SplitWs(_, _, _)
SplitWs(s, i, cur) ==
  IF i > Len(s) THEN (IF cur = "" THEN <<>> ELSE <<cur>>)
  ELSE IF Char(s, i) \in Whitespace
       THEN (IF cur = "" THEN <<>> ELSE <<cur>>) \o SplitWs(s, i + 1, "")
       ELSE SplitWs(s, i + 1, cur \o Char(s, i))

split_whitespace(s) == SplitWs(s, 1, "")

\* str::split(char): the pieces between the occurrences of the separator
RECURSIVE SplitCh(_, _, _, _)
SplitCh(s, ch, i, cur) ==
  IF i > Len(s) THEN <<cur>>
  ELSE IF Char(s, i) = ch
       THEN <<cur>> \o SplitCh(s, ch, i + 1, "")
       ELSE SplitCh(s, ch, i + 1, cur \o Char(s, i))

split(s, ch) == SplitCh(s, ch, 1, "")

\* u32::MAX, as decimal digits: TLC's integers stop at 2^31 - 1
U32MaxDigits == "4294967295"

ParseErr == -1

\* what parse_u32 reports for a value of ten significant digits that fits
\* in a u32: such a value is only ever compared with a field maximum
U32Large == 1000000000

RECURSIVE strip_zeros(_)
strip_zeros(s) ==
  IF Len(s) > 1 /\ Char(s, 1) = "0" THEN strip_zeros(Tail(s)) ELSE s

\* a <= b for two digit strings of the same length
RECURSIVE DigitsLeq(_, _)
DigitsLeq(a, b) ==
  IF a = "" THEN TRUE
  ELSE IF DigitVal[Char(a, 1)] # DigitVal[Char(b, 1)]
       THEN DigitVal[Char(a, 1)] < DigitVal[Char(b, 1)]
       ELSE DigitsLeq(Tail(a), Tail(b))

RECURSIVE DigitsValue(_, _)
DigitsValue(s, acc) ==
  IF s = "" THEN acc
  ELSE DigitsValue(Tail(s), acc * 10 + DigitVal[Char(s, 1)])

\* str::parse::<u32>: the value, or ParseErr for Err(_): an optional '+',
\* then one or more ASCII digits whose value fits in 32 bits
\* the value of significant digits, if it fits in 32 bits
SignificantValue(sig) ==
  IF Len(sig) > Len(U32MaxDigits) THEN ParseErr
  ELSE IF Len(sig) = Len(U32MaxDigits)
       THEN (IF DigitsLeq(sig, U32MaxDigits) THEN U32Large ELSE ParseErr)
  ELSE DigitsValue(sig, 0)

\* the value of what follows the optional sign
UnsignedValue(body) ==
  IF body = "" \/ \E k \in 1..Len(body) : Char(body, k) \notin Digits
  THEN ParseErr
  ELSE SignificantValue(strip_zeros(body))

parse_u32(s) ==
  UnsignedValue(IF s # "" /\ Char(s, 1) = "+" THEN Tail(s) ELSE s)

cron_patterns ==
  <<CRON_MINUTE, CRON_HOUR, CRON_DAY, CRON_MONTH, CRON_WEEKDAY>>

\* minute, hour, day, month, weekday
max_values == <<59, 23, 31, 12, 6>>

\* the closure of part.split(',').all(..): every number of the field parses
\* and is at most the field's maximum
\* n.parse::<u32>().map(|v| v <= max).unwrap_or(false)
NumberValid(n, i) == n # ParseErr /\ n <= max_values[i]

\* range_parts.iter().all(..)
RangePartsValid(range_parts, i) ==
  \A b \in 1..Len(range_parts) : NumberValid(parse_u32(range_parts[b]), i)

\* part.split(',').all(..) over the segments
SegmentsValid(segments, i) ==
  \A a \in 1..Len(segments) : RangePartsValid(split(segments[a], "-"), i)

\* a range/list field of which only the first number of every segment is
\* held against the field's maximum
RangeListValid_FirstOnly(part, i) ==
  \A a \in 1..Len(split(part, ",")) :
    NumberValid(parse_u32(split(split(part, ",")[a], "-")[1]), i)

\* the closure of part.split(',').all(..): every number of the field parses
\* and is at most the field's maximum
RangeListValid(part, i) == SegmentsValid(split(part, ","), i)

\* a loop body that also holds the step of a step wildcard against the
\* field's maximum
CronFieldValid_BoundedStep(P, part, i) ==
  \/ part = "*"
  \/ /\ is_match(P.CRON_STEP_WILDCARD, part)
     /\ NumberValid(parse_u32(SubSeq(part, 3, Len(part))), i)
  \/ /\ ~is_match(P.CRON_STEP_WILDCARD, part)
     /\ IF is_match(P.CRON_RANGE_LIST, part) THEN RangeListValid(part, i)
        ELSE is_match(<<P.CRON_MINUTE, P.CRON_HOUR, P.CRON_DAY, P.CRON_MONTH,
                        P.CRON_WEEKDAY>>[i], part)

\* the body of the for loop: whether field i lets the loop go on
CronFieldValid(P, part, i) ==
  IF part = "*" THEN TRUE
  ELSE IF is_match(P.CRON_STEP_WILDCARD, part) THEN TRUE
  ELSE IF is_match(P.CRON_RANGE_LIST, part) THEN RangeListValid(part, i)
  ELSE is_match(<<P.CRON_MINUTE, P.CRON_HOUR, P.CRON_DAY, P.CRON_MONTH,
                  P.CRON_WEEKDAY>>[i], part)

\* the for loop over parts.iter().enumerate(), from field i on; P holds the
\* statics
RECURSIVE CronLoop(_, _, _)
CronLoop(P, parts, i) ==
  IF i > Len(parts) THEN TRUE
  ELSE IF ~CronFieldValid(P, parts[i], i) THEN FALSE
  ELSE CronLoop(P, parts, i + 1)

\* parts that pass when they are five or fewer
CronPartsValid_AtMostFive(P, parts) ==
  IF Len(parts) > 5 THEN FALSE ELSE CronLoop(P, parts, 1)

\* the length check and the loop
CronPartsValid(P, parts) ==
  IF Len(parts) # 5 THEN FALSE ELSE CronLoop(P, parts, 1)

is_valid_cron(P, expr) == CronPartsValid(P, split_whitespace(trim(expr)))

(***************************************************************************)
(* validator.rs: results                                                   *)
(***************************************************************************)
\* ValidationError::new(code, message).with_suggestion(suggestion)
ValidationError(code, message, suggestion) ==
  [type |-> "error", code |-> code, message |-> message, line |-> None,
   suggestion |-> Some(suggestion)]

\* ValidationWarning::new(code, message).with_suggestion(suggestion)
ValidationWarning(code, message, suggestion) ==
  [type |-> "warning", code |-> code, message |-> message, line |-> None,
   suggestion |-> Some(suggestion)]

\* WorkflowMetadata::default()
DefaultMetadata ==
  [name |-> None, workflow_type |-> None, integrations |-> None,
   trigger |-> None, has_ai |-> None, pricing |-> None]

\* the three accumulators validate_workflow hands to every check group
NewAcc == [errors |-> <<>>, warnings |-> <<>>, metadata |-> DefaultMetadata]

\* an error put in front of the list, and a warning put among the errors
PushError_Front(acc, e) == [acc EXCEPT !.errors = <<e>> \o @]

PushWarning_AsError(acc, w) == [acc EXCEPT !.errors = Append(@, w)]

PushError(acc, e) == [acc EXCEPT !.errors = Append(@, e)]

PushWarning(acc, w) == [acc EXCEPT !.warnings = Append(@, w)]

get_node_module_suggestion(module) ==
  CASE module = "fs" ->
         "Cloudflare Workers have no filesystem. Store data in KV or R2."
    [] module = "path" -> "Use string manipulation or URL API instead."
    [] module = "child_process" ->
         "Workers cannot spawn processes. Use external services."
    [] module = "crypto" ->
         "Use Web Crypto API: crypto.subtle.digest(), crypto.randomUUID()"
    [] module \in {"http", "https"} -> "Use native fetch() instead."
    [] module = "buffer" -> "Use ArrayBuffer/Uint8Array instead."
    [] module = "stream" ->
         "Use Web Streams API (ReadableStream, WritableStream)."
    [] OTHER -> "See docs/WORKERS_RUNTIME_GUIDE.md for alternatives."

get_npm_package_suggestion(package) ==
  CASE package = "axios" ->
         "Use native fetch() - it works identically in Workers."
    [] package = "request" ->
         "Use native fetch() - request is deprecated anyway."
    [] package = "node-fetch" ->
         "Native fetch() is available - no polyfill needed."
    [] package = "express" ->
         "Workers use event-driven model, not HTTP servers."
    [] package = "bcrypt" -> "Use bcryptjs (pure JS) or Web Crypto API."
    [] package = "sharp" -> "Use Cloudflare Images for image processing."
    [] package = "puppeteer" ->
         "Use an external browser service or Cloudflare Browser Rendering."
    [] package = "mongoose" -> "Use Cloudflare D1 (SQLite) or external API."
    [] package = "pg" -> "Use Cloudflare D1 or Hyperdrive for PostgreSQL."
    [] package = "mysql" -> "Use Cloudflare D1 or Hyperdrive."
    [] package = "redis" -> "Use Cloudflare KV for key-value storage."
    [] OTHER -> "See docs/WORKERS_RUNTIME_GUIDE.md for alternatives."

(***************************************************************************)
(* validator.rs: the check groups.  P holds the statics the group          *)
(* dereferences; acc holds errors, warnings and metadata as the earlier    *)
(* groups left them.                                                       *)
(***************************************************************************)
\* an error that is pushed only while the error list is empty
PushErrorIf_FirstOnly(cond, acc, error) ==
  IF cond /\ acc.errors = <<>> THEN PushError(acc, error) ELSE acc

\* if cond { errors.push(error) }
PushErrorIf(cond, acc, error) == IF cond THEN PushError(acc, error) ELSE acc

\* if cond { warnings.push(warning) }
PushWarningIf(cond, acc, warning) ==
  IF cond THEN PushWarning(acc, warning) ELSE acc

\* the AI import check and metadata.has_ai
\* has_ai taken from the workers-ai import instead of the AI usage
AiImport_FromImport(has_ai_usage, has_workers_ai_import, acc) ==
  [PushWarningIf(has_ai_usage /\ ~has_workers_ai_import, acc,
     ValidationWarning("MISSING_AI_IMPORT",
       "AI usage detected but no workers-ai import found",
       "Add: import { createAIClient, AIModels } from '@workway/sdk/workers-ai'"))
   EXCEPT !.metadata.has_ai = Some(has_workers_ai_import)]

AiImport(has_ai_usage, has_workers_ai_import, acc) ==
  [PushWarningIf(has_ai_usage /\ ~has_workers_ai_import, acc,
     ValidationWarning("MISSING_AI_IMPORT",
       "AI usage detected but no workers-ai import found",
       "Add: import { createAIClient, AIModels } from '@workway/sdk/workers-ai'"))
   EXCEPT !.metadata.has_ai = Some(has_ai_usage)]

\* the two loops over the blocked modules and packages: modules and
\* packages are those whose pattern matches, in the order of the lists
BlockedImports(modules, packages, acc) ==
  [acc EXCEPT
     !.errors = @ \o
       [k \in 1..Len(modules) |->
          ValidationError("BLOCKED_NODE_MODULE",
            "Node.js module '" \o modules[k]
              \o "' is not available in Cloudflare Workers",
            get_node_module_suggestion(modules[k]))],
     !.warnings = @ \o
       [k \in 1..Len(packages) |->
          ValidationWarning("INCOMPATIBLE_NPM_PACKAGE",
            "npm package '" \o packages[k]
              \o "' is incompatible with Cloudflare Workers",
            get_npm_package_suggestion(packages[k]))]]

validate_imports(P, content, acc) ==
  BlockedImports(
    SelectSeq(BLOCKED_NODE_MODULES,
              LAMBDA m : is_match(blocked_module_pattern(m), content)),
    SelectSeq(BLOCKED_NPM_PACKAGES,
              LAMBDA m : is_match(blocked_module_pattern(m), content)),
    AiImport(is_match(P.AI_USAGE, content),
             is_match(P.WORKERS_AI_IMPORT, content),
             PushErrorIf(~is_match(P.SDK_IMPORT, content), acc,
               ValidationError("MISSING_SDK_IMPORT",
                 "Workflow must import from @workway/sdk",
                 "Add: import { defineWorkflow } from '@workway/sdk'"))))

\* metadata.name, or the warning that there is none
WorkflowName(name, acc) ==
  IF name # None THEN [acc EXCEPT !.metadata.name = name]
  ELSE PushWarning(acc,
         ValidationWarning("MISSING_NAME",
           "Workflow should have a name property",
           "Add: name: 'My Workflow'"))

\* metadata.workflow_type
WorkflowType(type, acc) ==
  IF type # None THEN [acc EXCEPT !.metadata.workflow_type = type] ELSE acc

validate_workflow_definition(P, content, acc) ==
  WorkflowType(captures1(P.WORKFLOW_TYPE, content),
    WorkflowName(captures1(P.WORKFLOW_NAME, content),
      PushErrorIf(/\ ~is_match(P.DEFINE_WORKFLOW, content)
                  /\ ~is_match(P.EXPORT_DEFAULT, content),
                  acc,
                  ValidationError("NO_WORKFLOW_EXPORT",
                    "Workflow must use defineWorkflow() or export default",
                    "Wrap your workflow in defineWorkflow({ ... })"))))

\* the check of the execute body for a return statement
ExecuteBody(body, acc) ==
  PushWarningIf(body # None /\ ~contains(body[1], "return"), acc,
    ValidationWarning("NO_RETURN",
      "Execute function should return a result",
      "Add: return { success: true, data: ... }"))

validate_execute_function(P, content, acc) ==
  ExecuteBody(captures1(P.EXECUTE_BODY, content),
    PushErrorIf(/\ ~is_match(P.HAS_EXECUTE, content)
                /\ ~is_match(P.HAS_RUN, content),
                acc,
                ValidationError("MISSING_EXECUTE",
                  "Workflow must have an execute or run function",
                  "Add: async execute({ trigger, actions }) { ... }")))

\* slice.contains / Vec::contains
SeqContains(q, x) == \E k \in 1..Len(q) : q[k] = x

\* the loop over the shorthand names without the test for a known name
RECURSIVE PushShorthand_Unfiltered(_, _, _)
PushShorthand_Unfiltered(names, k, integrations) ==
  IF k > Len(names) THEN integrations
  ELSE PushShorthand_Unfiltered(names, k + 1,
         IF ~SeqContains(integrations, to_lowercase(names[k]))
         THEN Append(integrations, to_lowercase(names[k]))
         ELSE integrations)

\* the loop over SHORTHAND_INTEGRATIONS.captures_iter(block_str), from the
\* k-th match on
RECURSIVE PushShorthand(_, _, _)
PushShorthand(names, k, integrations) ==
  IF k > Len(names) THEN integrations
  ELSE PushShorthand(names, k + 1,
         IF /\ SeqContains(KNOWN_INTEGRATIONS, to_lowercase(names[k]))
            /\ ~SeqContains(integrations, to_lowercase(names[k]))
         THEN Append(integrations, to_lowercase(names[k]))
         ELSE integrations)

\* KNOWN_INTEGRATIONS[..5].join(", ")
RECURSIVE join(_, _)
join(q, sep) ==
  IF q = <<>> THEN ""
  ELSE IF Len(q) = 1 THEN q[1]
  ELSE q[1] \o sep \o join(Tail(q), sep)

\* the loop over SERVICE_NAMES.captures_iter(block_str)
Lowered(services) ==
  [k \in 1..Len(services) |-> to_lowercase(services[k])]

\* the loop that warns about every integration that is not known
UnknownIntegrations(unknown, acc) ==
  [acc EXCEPT
     !.warnings = @ \o
       [k \in 1..Len(unknown) |->
          ValidationWarning("UNKNOWN_INTEGRATION",
            "Unknown integration: " \o unknown[k],
            "Valid integrations: "
              \o join(SubSeq(KNOWN_INTEGRATIONS, 1, 5), ", ") \o "...")]]

\* metadata.integrations
SetIntegrations(integrations, acc) ==
  IF integrations # <<>>
  THEN [acc EXCEPT !.metadata.integrations = Some(integrations)] ELSE acc

\* what validate_integrations does with the integrations it collected
Integrations(block_str, integrations, acc) ==
  SetIntegrations(integrations,
    PushWarningIf(integrations # <<>> /\ ~contains(block_str, "scopes"),
      UnknownIntegrations(
        SelectSeq(integrations,
                  LAMBDA n : ~SeqContains(KNOWN_INTEGRATIONS, n)),
        acc),
      ValidationWarning("MISSING_SCOPES",
        "Integrations should specify required scopes",
        "Add: scopes: ['read_data', 'write_data']")))

\* the body of if let Some(block) = INTEGRATIONS_BLOCK.captures(content)
IntegrationsBlock(P, block_str, acc) ==
  Integrations(block_str,
    PushShorthand(captures_iter1(P.SHORTHAND_INTEGRATIONS, block_str), 1,
                  Lowered(captures_iter1(P.SERVICE_NAMES, block_str))),
    acc)

\* if let Some(block) = ..: nothing happens without a block
IfBlock(P, block, acc) ==
  IF block = None THEN acc ELSE IntegrationsBlock(P, block[1], acc)

validate_integrations(P, content, acc) ==
  IfBlock(P, captures1(P.INTEGRATIONS_BLOCK, content), acc)

\* metadata.trigger: the trigger call, or else the type of a trigger object
TriggerType(call, object, acc) ==
  IF call # None THEN [acc EXCEPT !.metadata.trigger = call]
  ELSE IF object # None THEN [acc EXCEPT !.metadata.trigger = object]
  ELSE acc

\* a webhook configuration that names neither service nor event
WebhookConfig(config, acc) ==
  PushWarningIf(/\ config # None
                /\ ~contains(config[1], "service")
                /\ ~contains(config[1], "event"),
    acc,
    ValidationWarning("INCOMPLETE_WEBHOOK",
      "Webhook trigger should specify service and event",
      "Add: service: 'stripe', event: 'payment.succeeded'"))

\* a schedule expression that is not a valid cron expression
ScheduleExpr(P, cron, acc) ==
  IF cron # None /\ ~is_valid_cron(P, cron[1])
  THEN PushError(acc,
         ValidationError("INVALID_CRON",
           "Invalid cron expression: " \o cron[1],
           "Use format: '0 8 * * *' (minute hour day month weekday)"))
  ELSE acc

\* if content.contains("webhook(") { .. }
IfWebhook(P, content, acc) ==
  IF contains(content, "webhook(")
  THEN WebhookConfig(captures1(P.WEBHOOK_CONFIG, content), acc) ELSE acc

\* if content.contains("schedule(") { .. }
IfSchedule(P, content, acc) ==
  IF contains(content, "schedule(")
  THEN ScheduleExpr(P, captures1(P.SCHEDULE_EXPR, content), acc) ELSE acc

validate_trigger(P, content, acc) ==
  IF ~is_match(P.HAS_TRIGGER, content)
  THEN PushError(acc,
         ValidationError("MISSING_TRIGGER", "Workflow must define a trigger",
           "Add: trigger: webhook({ service: 'stripe', event: 'payment.succeeded' })"))
  ELSE IfSchedule(P, content,
         IfWebhook(P, content,
           TriggerType(captures1(P.TRIGGER_TYPE, content),
                       captures1(P.TRIGGER_OBJECT_TYPE, content), acc)))

\* the f64 a price text parses to, written without leading zeros of the
\* integer part and without trailing zeros of the fraction
RECURSIVE strip_trailing_zeros(_)
strip_trailing_zeros(s) ==
  IF s # "" /\ Char(s, Len(s)) = "0"
  THEN strip_trailing_zeros(SubSeq(s, 1, Len(s) - 1)) ELSE s

F64Text(whole, frac) == IF frac = "" THEN whole ELSE whole \o "." \o frac

F64Pieces(pieces) ==
  F64Text(strip_zeros(pieces[1]),
          IF Len(pieces) > 1 THEN strip_trailing_zeros(pieces[2]) ELSE "")

parse_f64(s) == F64Pieces(split(s, "."))

\* PricingMetadata::default()
DefaultPricing == [model |-> None, price |-> None]

\* the pricing metadata and the executions check
Pricing(P, content, model, price, acc) ==
  [PushWarningIf(/\ model = Some("subscription")
                 /\ ~is_match(P.HAS_EXECUTIONS, content),
     acc,
     ValidationWarning("MISSING_EXECUTIONS",
       "Subscription pricing should specify executions limit",
       "Add: executions: 100"))
   EXCEPT !.metadata.pricing =
     Some([model |-> model,
           price |-> IF price # None THEN Some(parse_f64(price[1]))
                     ELSE None])]

validate_pricing(P, content, acc) ==
  IF ~is_match(P.HAS_PRICING, content)
  THEN PushWarning(acc,
         ValidationWarning("MISSING_PRICING",
           "Workflow should define pricing for marketplace",
           "Add: pricing: { model: 'subscription', price: 10, executions: 100 }"))
  ELSE Pricing(P, content, captures1(P.PRICING_MODEL, content),
               captures1(P.PRICING_PRICE, content), acc)

validate_ai_usage(P, content, acc) ==
  PushWarningIf(/\ acc.metadata.has_ai = Some(TRUE)
                /\ ~is_match(P.ENV_ACCESS, content),
    PushWarningIf(is_match(P.EXTERNAL_AI, content), acc,
      ValidationWarning("EXTERNAL_AI_DETECTED",
        "External AI providers detected. WORKWAY uses Cloudflare Workers AI only.",
        "Use: createAIClient(env) with AIModels.LLAMA_3_8B or AIModels.MISTRAL_7B")),
    ValidationWarning("MISSING_ENV_ACCESS",
      "AI usage requires env parameter in execute function",
      "Update: async execute({ trigger, actions, env }) { ... }"))

\* the warning about more than three console statements
ExcessiveLogging(console_count, acc) ==
  PushWarningIf(console_count > 3, acc,
    ValidationWarning("EXCESSIVE_LOGGING",
      "Found " \o ToString(console_count) \o " console statements",
      "Consider reducing logging in production builds"))

\* one HARDCODED_SECRET error for every one of the matches
SecretErrors(matches) ==
  [k \in 1..Len(matches) |->
     ValidationError("HARDCODED_SECRET", "Possible hardcoded secret detected",
       "Use environment variables or secrets manager instead")]

\* the matches of the first secret kind that matches at all
SecretMatches(P, content) ==
  IF is_match(P.SECRET_API_KEY, content)
  THEN find_iter(P.SECRET_API_KEY, content)
  ELSE IF is_match(P.SECRET_SECRET, content)
  THEN find_iter(P.SECRET_SECRET, content)
  ELSE IF is_match(P.SECRET_PASSWORD, content)
  THEN find_iter(P.SECRET_PASSWORD, content)
  ELSE find_iter(P.SECRET_TOKEN, content)

\* common mistakes with the secret literals enumerated: an error for
\* every match instead of one for all
validate_common_mistakes_PerMatch(P, content, acc) ==
  [ExcessiveLogging(Len(find_iter(P.CONSOLE_STATEMENTS, content)), acc)
     EXCEPT !.errors = @ \o SecretErrors(SecretMatches(P, content))]

validate_common_mistakes(P, content, acc) ==
  PushWarningIf(is_match(P.EMPTY_CATCH, content),
    PushWarningIf(\/ is_match(P.AWAIT_IN_FOR_LOOP, content)
                  \/ is_match(P.AWAIT_IN_WHILE_LOOP, content),
      PushErrorIf(\/ is_match(P.SECRET_API_KEY, content)
                  \/ is_match(P.SECRET_SECRET, content)
                  \/ is_match(P.SECRET_PASSWORD, content)
                  \/ is_match(P.SECRET_TOKEN, content),
        ExcessiveLogging(Len(find_iter(P.CONSOLE_STATEMENTS, content)), acc),
        ValidationError("HARDCODED_SECRET",
          "Possible hardcoded secret detected",
          "Use environment variables or secrets manager instead")),
      ValidationWarning("AWAIT_IN_LOOP",
        "Await inside loop detected (may affect performance)",
        "Consider using Promise.all() for parallel execution")),
    ValidationWarning("EMPTY_CATCH", "Empty catch block detected",
      "Handle or re-throw errors properly"))

\* a result that is valid only when there are no warnings either
ValidationResult_WarningsCount(acc) ==
  [valid |-> acc.errors = <<>> /\ acc.warnings = <<>>, errors |-> acc.errors,
   warnings |-> acc.warnings, metadata |-> Some(acc.metadata)]

\* a result that carries its metadata only when the text passed
ValidationResult_MetadataIfValid(acc) ==
  [valid |-> acc.errors = <<>>, errors |-> acc.errors,
   warnings |-> acc.warnings,
   metadata |-> IF acc.errors = <<>> THEN Some(acc.metadata) ELSE None]

\* the ValidationResult validate_workflow builds from the accumulators
ValidationResult(acc) ==
  [valid |-> acc.errors = <<>>, errors |-> acc.errors,
   warnings |-> acc.warnings, metadata |-> Some(acc.metadata)]

\* validate_workflow, run from start to end with the statics P
validate_workflow(P, content) ==
  LET a1 == validate_imports(P, content, NewAcc)
      a2 == validate_workflow_definition(P, content, a1)
      a3 == validate_execute_function(P, content, a2)
      a4 == validate_integrations(P, content, a3)
      a5 == validate_trigger(P, content, a4)
      a6 == validate_pricing(P, content, a5)
      a7 == validate_ai_usage(P, content, a6)
      a8 == validate_common_mistakes(P, content, a7)
  IN  ValidationResult(a8)

(***************************************************************************)
(* The statics a check group dereferences, in the order of its code.  A    *)
(* Lazy<Regex> is forced by its first dereference, so which statics a      *)
(* call forces depends on the branches the text makes it take.             *)
(***************************************************************************)
\* the dereferences of the loop of is_valid_cron, from field i on
\* the statics the loop body dereferences for one field
CronFieldUses(part) ==
  IF part = "*" THEN <<>>
  ELSE IF is_match(CRON_STEP_WILDCARD, part) THEN <<"CRON_STEP_WILDCARD">>
  ELSE <<"CRON_STEP_WILDCARD", "CRON_RANGE_LIST">>

RECURSIVE CronLoopUses(_, _)
CronLoopUses(parts, i) ==
  IF i > Len(parts) THEN <<>>
  ELSE CronFieldUses(parts[i])
         \o (IF ~CronFieldValid(Patterns, parts[i], i) THEN <<>>
             ELSE CronLoopUses(parts, i + 1))

\* the statics is_valid_cron dereferences: the five of the patterns array
\* once there are five fields, then those of the loop
CronPartsUses(parts) ==
  IF Len(parts) # 5 THEN <<>>
  ELSE <<"CRON_MINUTE", "CRON_HOUR", "CRON_DAY", "CRON_MONTH",
         "CRON_WEEKDAY">> \o CronLoopUses(parts, 1)

CronUses(expr) == CronPartsUses(split_whitespace(trim(expr)))

\* the statics dereferenced for the captured schedule expression
ScheduleUses(cron) == IF cron = None THEN <<>> ELSE CronUses(cron[1])

Uses(group, content, acc) ==
  CASE group = "imports" -> <<"SDK_IMPORT", "AI_USAGE", "WORKERS_AI_IMPORT">>
    [] group = "definition" ->
         <<"DEFINE_WORKFLOW", "EXPORT_DEFAULT", "WORKFLOW_NAME",
           "WORKFLOW_TYPE">>
    [] group = "execute" -> <<"HAS_EXECUTE", "HAS_RUN", "EXECUTE_BODY">>
    [] group = "integrations" ->
         <<"INTEGRATIONS_BLOCK">>
           \o (IF is_match(INTEGRATIONS_BLOCK, content)
               THEN <<"SERVICE_NAMES", "SHORTHAND_INTEGRATIONS">> ELSE <<>>)
    [] group = "trigger" ->
         <<"HAS_TRIGGER">>
           \o (IF ~is_match(HAS_TRIGGER, content) THEN <<>>
               ELSE <<"TRIGGER_TYPE">>
                      \o (IF is_match(TRIGGER_TYPE, content) THEN <<>>
                          ELSE <<"TRIGGER_OBJECT_TYPE">>)
                      \o (IF contains(content, "webhook(")
                          THEN <<"WEBHOOK_CONFIG">> ELSE <<>>)
                      \o (IF contains(content, "schedule(")
                          THEN <<"SCHEDULE_EXPR">>
                                 \o ScheduleUses(captures1(SCHEDULE_EXPR,
                                                            content))
                          ELSE <<>>))
    [] group = "pricing" ->
         <<"HAS_PRICING">>
           \o (IF ~is_match(HAS_PRICING, content) THEN <<>>
               ELSE <<"PRICING_MODEL", "PRICING_PRICE">>
                      \o (IF captures1(PRICING_MODEL, content)
                              = Some("subscription")
                          THEN <<"HAS_EXECUTIONS">> ELSE <<>>))
    [] group = "ai_usage" ->
         <<"EXTERNAL_AI">>
           \o (IF acc.metadata.has_ai = Some(TRUE) THEN <<"ENV_ACCESS">>
               ELSE <<>>)
    [] group = "mistakes" ->
         <<"CONSOLE_STATEMENTS", "SECRET_API_KEY">>
           \o (IF is_match(SECRET_API_KEY, content) THEN <<>>
               ELSE <<"SECRET_SECRET">>
                      \o (IF is_match(SECRET_SECRET, content) THEN <<>>
                          ELSE <<"SECRET_PASSWORD">>
                                 \o (IF is_match(SECRET_PASSWORD, content)
                                     THEN <<>> ELSE <<"SECRET_TOKEN">>)))
           \o <<"AWAIT_IN_FOR_LOOP">>
           \o (IF is_match(AWAIT_IN_FOR_LOOP, content) THEN <<>>
               ELSE <<"AWAIT_IN_WHILE_LOOP">>)
           \o <<"EMPTY_CATCH">>

(***************************************************************************)
(* Inputs of the model                                                     *)
(***************************************************************************)
\* threads that may call validate_workflow at the same time
NThreads == 2

\* calls made in a run of concurrent callers
MaxCalls == 2

\* calls made in a run of one caller
SeqCalls == 3

\* most fields of a generated cron expression
MaxCronFields == 6

\* most parts in which a generated workflow text differs from the complete
\* workflow
MaxDeviations == 2

\* the lines with a secret literal in one text
MaxSecretLines == 4

\* the parts of an AI text that are not left out
MaxAiParts == 2

\* the items of an integrations block
MaxItems == 2

\* the lines of a text written for the catalog of codes
MaxLines == 2

\* the lines that follow the trigger of a text about triggers
MaxExtras == 2

\* the largest value written before the step of a generated cron field
MaxValue == 60

\* the import lines of a text about imports
MaxImports == 2

Threads == 1..NThreads

\* the text of test_missing_sdk_import
MissingSdkText == "export default { name: 'test' }"

ScheduleText == "import '@workway/sdk'\ntrigger: schedule('0 25 * * *')"

AiText == "trigger: x, createAIClient(env)"

\* not a workflow, not even code
MalformedText == "}{ ((' schedule( \" integrations: [ trigger: { type"

\* the texts validated by one caller, call after call
SeqPool == {"", MissingSdkText, ScheduleText, AiText}

\* the texts validated by concurrent callers
RacePool == {MissingSdkText, ScheduleText}

\* the parts a workflow text is put together from
SdkParts ==
  <<"", "import { defineWorkflow } from '@workway/sdk';\n",
    "import { createAIClient } from '@workway/sdk/workers-ai';\n">>

ModuleParts == <<"", "import fs from 'fs';\n">>

ExportParts == <<"", "export default defineWorkflow({\n  name: 'Test',\n">>

TriggerParts ==
  <<"", "trigger: webhook({ service: 'stripe', event: 'paid' }),\n",
    "trigger: webhook({ service: 'stripe', event: 'paid' }),\n// was: schedule('0 8 * * *')\n",
    "trigger: webhook({ service: 'stripe', event: 'paid' }),\n// was: schedule('daily')\n">>

PricingParts ==
  <<"", "pricing: { model: 'subscription', price: 10, executions: 100 },\n">>

ExecuteParts == <<"", "async execute({ trigger }) { return { ok: true }; }\n">>

SecretParts == <<"", "const password = 'hunter2';\n">>

\* a workflow text: one choice for every part, in the order of a workflow file
Compose(c) ==
  SdkParts[c.sdk] \o ModuleParts[c.module] \o ExportParts[c.export]
    \o TriggerParts[c.trigger] \o PricingParts[c.pricing]
    \o ExecuteParts[c.execute] \o SecretParts[c.secret] \o "});\n"

Choices ==
  [sdk : DOMAIN SdkParts, module : DOMAIN ModuleParts,
   export : DOMAIN ExportParts, trigger : DOMAIN TriggerParts,
   pricing : DOMAIN PricingParts, execute : DOMAIN ExecuteParts,
   secret : DOMAIN SecretParts]

\* the minimally complete workflow of test_valid_workflow, with shorter
\* values and without the type property
Complete ==
  [sdk |-> 2, module |-> 1, export |-> 2, trigger |-> 2, pricing |-> 2,
   execute |-> 2, secret |-> 1]

\* the workflow texts that differ from the complete one in at most
\* MaxDeviations parts
WidePool ==
  {Compose(c) :
     c \in {d \in Choices :
              Cardinality({f \in DOMAIN Complete : d[f] # Complete[f]})
                <= MaxDeviations}}
    \cup {"", MissingSdkText, MalformedText}

\* the secret kinds of validate_common_mistakes, each with a literal that
\* looks hardcoded; the first is the example of the specification
SecretKinds == <<"api_key", "secret", "password", "token">>

SecretLiterals ==
  <<"apiKey: \"abcdefghijklmnopqrstuvwxyz\"",
    "secret = 'aaaaaaaaaaaaaaaaaaaa'",
    "PassWord: 'x'",
    "TOKEN='bbbbbbbbbbbbbbbbbbbbb'">>

\* literals that fall short: 19 characters, an empty password, no quotes,
\* no separator
SecretNearMisses ==
  {"api_key: 'aaaaaaaaaaaaaaaaaaa'", "password: ''",
   "secret: aaaaaaaaaaaaaaaaaaaaaaaa", "token 'bbbbbbbbbbbbbbbbbbbbb'",
   "const key = 'abcdefghijklmnopqrstuvwxyz'"}

\* line n times
RECURSIVE Repeat(_, _)
Repeat(line, n) == IF n = 0 THEN "" ELSE line \o "\n" \o Repeat(line, n - 1)

\* the literals of the chosen kinds, each times times, in the order of kinds
RECURSIVE SecretLines(_, _, _)
SecretLines(kinds, times, k) ==
  IF k > Len(SecretKinds) THEN ""
  ELSE (IF k \in kinds THEN Repeat(SecretLiterals[k], times) ELSE "")
         \o SecretLines(kinds, times, k + 1)

SecretText(d) == SecretLines(d.kinds, d.times, 1)

\* which kinds, and how often each: at most MaxSecretLines lines in all
SecretChoices ==
  {d \in [kinds : SUBSET (1..Len(SecretKinds)), times : 1..MaxSecretLines] :
     Cardinality(d.kinds) * d.times <= MaxSecretLines}

SecretPool == {SecretText(d) : d \in SecretChoices} \cup SecretNearMisses

\* the parts an AI text is put together from: a use of AI (the last one
\* only looks like one), an access to env (the last one is none), and the
\* name of an external provider (the last ones are none)
AiUsageParts ==
  <<"", "createAIClient(env);\n", "AIModels.LLAMA\n", "env.AI.run()\n",
    "from '@workway/sdk/workers-ai'\n", "createaiclient envXAI\n">>

EnvParts ==
  <<"", "execute({ env })\n", "context.env\n", "(a, env , b)\n",
    "environment\n">>

ProviderParts ==
  <<"", "claude\n", "OpenAI\n", "GPT-4\n", "use Anthropic\n", "gEmInI\n",
    "gpt4 open-ai\n">>

AiCompose(d) ==
  AiUsageParts[d.usage] \o EnvParts[d.env] \o ProviderParts[d.provider]

AiChoices ==
  {d \in [usage : DOMAIN AiUsageParts, env : DOMAIN EnvParts,
          provider : DOMAIN ProviderParts] :
     Cardinality({f \in DOMAIN d : d[f] # 1}) <= MaxAiParts}

\* the complete workflow with the name of a provider in it
AiValidTexts ==
  {Compose(Complete) \o ProviderParts[k] : k \in DOMAIN ProviderParts}

AiPool == {AiCompose(d) : d \in AiChoices} \cup AiValidTexts

\* import lines: of the SDK, of its workers-ai module, and lines that hold
\* only a part of the latter or differ from it in a letter
ImportLines ==
  <<"import { defineWorkflow } from '@workway/sdk';\n",
    "import ai from '@workway/sdk/workers-ai';\n",
    "import a from 'workers-ai';\n",
    "import b from '@workway/sdkx/workers-ai';\n",
    "import c from '@workway/SDK/workers-ai';\n",
    "import d from '@workway/sdk/workers-a';\n">>

\* a use of AI below the imports; the last one only looks like one
ImportUsages ==
  <<"", "createAIClient(env);\n", "AIModels.LLAMA\n", "env.AI.run()\n",
    "createaiclient envXAI\n">>

RECURSIVE ImportText(_, _, _)
ImportText(lines, usage, k) ==
  IF k > Len(ImportLines) THEN ImportUsages[usage]
  ELSE (IF k \in lines THEN ImportLines[k] ELSE "")
         \o ImportText(lines, usage, k + 1)

ImportChoices ==
  {lines \in SUBSET DOMAIN ImportLines : Cardinality(lines) <= MaxImports}

ImportPool ==
  {ImportText(lines, usage, 1) :
     lines \in ImportChoices, usage \in DOMAIN ImportUsages}

\* the items an integrations block is written with: a service reference or
\* a quoted shorthand identifier, with a known or an unknown name; the last
\* item holds a scopes array, whose ] is the first ] of the block
IntegItems ==
  <<[kind |-> "service", name |-> "stripe", text |-> "{ service: 'stripe' }"],
    [kind |-> "service", name |-> "Foo", text |-> "{ service: 'Foo' }"],
    [kind |-> "shorthand", name |-> "slack", text |-> "'slack'"],
    [kind |-> "shorthand", name |-> "bar", text |-> "'bar'"],
    [kind |-> "scoped", name |-> "baz",
     text |-> "{ service: 'baz', scopes: ['r'] }"]>>

IntegChoices == UNION {[1..n -> DOMAIN IntegItems] : n \in 0..MaxItems}

IntegText(items) ==
  "integrations: ["
    \o join([k \in 1..Len(items) |-> IntegItems[items[k]].text], ", ")
    \o "],\n"

\* texts without an integrations block
IntegBlockless == {"", "integrations: 'stripe', service: 'foo'"}

IntegPool == {IntegText(items) : items \in IntegChoices} \cup IntegBlockless

\* lines that between them bring every code of the catalog about, by being
\* there or by being left out
CatalogLines ==
  <<"import x from '@workway/sdk';\n",
    "import fs from 'fs';\nimport axios from 'axios';\n",
    "export default { name: 'n', type: 'ai-native',\n",
    "execute(a) { x }\n",
    "trigger: webhook({ a: 1 }), schedule('x')\n",
    "pricing: { model: 'subscription', price: 1.50 },\n",
    "AIModels openai\n",
    "console.log console.warn console.error console.log\nfor (a) { await b }\ncatch (e) {}\n",
    "password = 'p'\n",
    "integrations: [{ service: 'foo' }],\n">>

RECURSIVE CatalogText(_, _)
CatalogText(lines, k) ==
  IF k > Len(CatalogLines) THEN ""
  ELSE (IF k \in lines THEN CatalogLines[k] ELSE "")
         \o CatalogText(lines, k + 1)

\* at most MaxLines of the lines, all of them, or all but the SDK import
CatalogChoices ==
  {lines \in SUBSET DOMAIN CatalogLines : Cardinality(lines) <= MaxLines}
    \cup {DOMAIN CatalogLines, DOMAIN CatalogLines \ {1}}

CatalogPool == {CatalogText(lines, 1) : lines \in CatalogChoices}

\* the ways a text declares its trigger: not at all, in the call style with
\* each of the four kinds, in the object style with a kind of the four and
\* with another word, in both styles, and with a marker that neither style
\* matches
TriggerForms ==
  <<"",
    "trigger: webhook({ service: 's', event: 'e' }),\n",
    "trigger: schedule('0 8 * * *'),\n",
    "trigger: manual(),\n",
    "trigger: poll({}),\n",
    "trigger: { type: 'webhook' },\n",
    "trigger: { type: 'cron' },\n",
    "trigger: { type: 'schedule' },\ntrigger: manual(),\n",
    "trigger: x,\n">>

\* lines that follow it: a webhook call with a configuration that names
\* neither service nor event, a schedule call with a malformed expression,
\* a pricing block, a secret literal and the name of an AI provider
TriggerExtras ==
  <<"webhook({ a: 1 })\n",
    "schedule('bad')\n",
    "pricing: { model: 'usage' },\n",
    "password = 'p'\n",
    "openai\n">>

RECURSIVE TriggerText(_, _, _)
TriggerText(form, extras, k) ==
  IF k > Len(TriggerExtras) THEN ""
  ELSE (IF k = 1 THEN TriggerForms[form] ELSE "")
         \o (IF k \in extras THEN TriggerExtras[k] ELSE "")
         \o TriggerText(form, extras, k + 1)

TriggerChoices ==
  {extras \in SUBSET DOMAIN TriggerExtras : Cardinality(extras) <= MaxExtras}

TriggerPool ==
  {TriggerText(form, extras, 1) :
     form \in DOMAIN TriggerForms, extras \in TriggerChoices}

\* the fields a cron expression is generated from: what the field is, and
\* the text it is written as
Wild == [kind |-> "star"]

StepWild(n) == [kind |-> "step", n |-> n]

\* a range/list field: its segments, each <<number>> or <<low, high>>
RangeList(segs) == [kind |-> "rl", segs |-> segs]

NumField(a) == RangeList(<<<<a>>>>)

RangeField(a, b) == RangeList(<<<<a, b>>>>)

ListField(a, b) == RangeList(<<<<a>>, <<b>>>>)

ValueStepField(a, b) == [kind |-> "vstep", a |-> a, b |-> b]

RawField(s) == [kind |-> "raw", s |-> s]

Render(d) ==
  CASE d.kind = "star" -> "*"
    [] d.kind = "step" -> "*/" \o ToString(d.n)
    [] d.kind = "rl" ->
         join([k \in 1..Len(d.segs) |->
                 join([j \in 1..Len(d.segs[k]) |-> ToString(d.segs[k][j])],
                      "-")], ",")
    [] d.kind = "vstep" -> ToString(d.a) \o "/" \o ToString(d.b)
    [] d.kind = "raw" -> d.s

\* the expression an input is written as: the fields, separated by sep and
\* surrounded by pad
RenderExpr(in) ==
  in.pad
    \o join([k \in 1..Len(in.fields) |-> Render(in.fields[k])], in.sep)
    \o in.pad

\* the numbers around the bounds of the five fields
CronNums ==
  {0, 1, 5, 25} \cup {max_values[i] : i \in 1..5}
    \cup {max_values[i] + 1 : i \in 1..5}

CronSteps == {0, 1, 15, 99, 100, 99999}

ProbeFields ==
  {Wild} \cup {StepWild(n) : n \in CronSteps} \cup {NumField(a) : a \in CronNums}
    \cup {RangeField(a, b) : a \in CronNums, b \in CronNums}
    \cup {ListField(a, b) : a \in CronNums, b \in CronNums}
    \cup {RangeList(<<<<1, 5>>, <<a>>, <<6, 0>>>>) : a \in CronNums}
    \cup {ValueStepField(a, b) : a \in CronNums, b \in CronSteps}
    \cup {RawField(x) : x \in {"x", "1-", "-1", "1,", ",1", "*/", "*/x", "**",
                          "1/", "*/*", "*-1", "1-2-3", "1--2", "007",
                          "4294967295", "4294967296", "+1", "1/007"}}

\* one probed field among fields that are all `*`, or all `1`
ProbeInputs ==
  {[fields |-> [k \in 1..5 |-> IF k = pos THEN d ELSE rest], sep |-> " ",
    pad |-> ""] :
     pos \in 1..5, d \in ProbeFields, rest \in {Wild, NumField(1)}}

CountFields == {Wild, StepWild(15), RangeField(5, 1)}

\* every number of fields, with several separators
CountInputs ==
  {[fields |-> f, sep |-> sep, pad |-> pad] :
     f \in UNION {[1..n -> CountFields] : n \in 0..MaxCronFields},
     sep \in {" ", " \t"}, pad \in {"", " "}}

\* the expressions of test_cron_validation and of the specification
ExampleInputs ==
  {[fields |-> f, sep |-> " ", pad |-> ""] :
     f \in {<<NumField(0), NumField(8), Wild, Wild, Wild>>,
            <<StepWild(15), Wild, Wild, Wild, Wild>>,
            <<NumField(0), NumField(0), NumField(1), Wild, Wild>>,
            <<RawField("invalid")>>,
            <<NumField(0), NumField(25), Wild, Wild, Wild>>,
            <<NumField(60), NumField(0), NumField(1), NumField(1), NumField(0)>>}}

\* steps around the ends of what a field pattern takes as a step
FieldSteps == {0, 1, 9, 10, 99, 100, 101}

\* fields that are neither `*`, nor a step wildcard, nor a range or list,
\* nor a value and a step written in plain decimal
OtherTexts ==
  {"x", "**", "?", "L", "MON", "JAN", "1/", "/5", "1/x", "x/5", "1/*",
   "1/-5", "1/5/5", "*/5/5", "1-5/2", "1,2/5", "*/", "05/5", "1/05", "1/00",
   "01/1", "1//5", "1/5,", "-", ","}

\* the fields whose fate the field's own pattern decides, with some that
\* the rules before it accept
PatternFields ==
  {ValueStepField(a, b) : a \in 0..MaxValue, b \in FieldSteps}
    \cup {RawField(x) : x \in OtherTexts}
    \cup {Wild, StepWild(100), NumField(1), RangeField(5, 1)}

\* one such field among fields that are all `*`, all `1`, all `1/1`, or
\* all `x`
PatternInputs ==
  {[fields |-> [k \in 1..5 |-> IF k = pos THEN d ELSE rest], sep |-> " ",
    pad |-> ""] :
     pos \in 1..5, d \in PatternFields,
     rest \in {Wild, NumField(1), ValueStepField(1, 1), RawField("x")}}

CronInputs == ProbeInputs \cup CountInputs \cup ExampleInputs

(***************************************************************************)
(* State                                                                   *)
(***************************************************************************)
VARIABLES
  lazy,       \* once_cell state of every static: "uninit", "running", "init"
  builds,     \* how many times the closure of every static has run
  pc,         \* where every thread is: "idle", a check group, or "return"
  content,    \* the text of the call every thread is in
  acc,        \* errors, warnings and metadata of that call so far
  uses,       \* the statics the thread's check group dereferences, in order
  initing,    \* the static whose closure the thread is running, if any
  log,        \* the calls that have returned, in order of return
  lateMade,   \* the matchers constructed since the first call returned
  pool,       \* the texts callers may pass
  table,      \* tabulated values of the check groups
  callsLeft,  \* calls that may still be made
  callers,    \* the threads that make calls
  cronIn,     \* the input of is_valid_cron
  cronResult  \* what is_valid_cron returned for it

vars ==
  <<lazy, builds, pc, content, acc, uses, initing, log, lateMade, pool,
    table, callsLeft, callers, cronIn, cronResult>>

cronVars == <<cronIn, cronResult>>

callVars ==
  <<lazy, builds, pc, content, acc, uses, initing, log, lateMade, pool,
    table, callsLeft, callers>>

Groups ==
  <<"imports", "definition", "execute", "integrations", "trigger", "pricing",
    "ai_usage", "mistakes">>

\* the statement of validate_workflow that follows the call of a group
NextPc(group) ==
  CASE group = "imports" -> "definition"
    [] group = "definition" -> "execute"
    [] group = "execute" -> "integrations"
    [] group = "integrations" -> "trigger"
    [] group = "trigger" -> "pricing"
    [] group = "pricing" -> "ai_usage"
    [] group = "ai_usage" -> "mistakes"
    [] group = "mistakes" -> "return"

InGroup(t) == \E k \in 1..Len(Groups) : pc[t] = Groups[k]

\* a static that has not been built: no text can be matched against it
Unbuilt == [t |-> "unbuilt"]

\* the statics as the threads find them
Cells == [n \in LazySet |-> IF lazy[n] = "init" THEN Patterns[n] ELSE Unbuilt]

\* the first static the thread's group dereferences that is not built yet
FirstOpen(q, open) == IF open = {} THEN None ELSE Some(q[Min(open)])

NextLazy(t) ==
  FirstOpen(uses[t], {k \in 1..Len(uses[t]) : lazy[uses[t][k]] # "init"})

\* the check group of validate_workflow by its name
RunGroup(group, P, text, a) ==
  CASE group = "imports" -> validate_imports(P, text, a)
    [] group = "definition" -> validate_workflow_definition(P, text, a)
    [] group = "execute" -> validate_execute_function(P, text, a)
    [] group = "integrations" -> validate_integrations(P, text, a)
    [] group = "trigger" -> validate_trigger(P, text, a)
    [] group = "pricing" -> validate_pricing(P, text, a)
    [] group = "ai_usage" -> validate_ai_usage(P, text, a)
    [] group = "mistakes" -> validate_common_mistakes(P, text, a)

\* the statics the statement after the group dereferences
UsesAfter(group, text, after) ==
  IF NextPc(group) = "return" THEN <<>>
  ELSE Uses(NextPc(group), text, after)

\* A check group is a function of the statics it dereferences, the text and
\* the results so far, and it runs once those statics are built.  For the
\* texts of the concurrent callers its values are tabulated, one row per
\* group in the order validate_workflow calls them, so that a step of a
\* thread looks the value up instead of matching the text again.
RECURSIVE GroupRows(_, _, _)
RECURSIVE GroupRowsAfter(_, _, _, _)
GroupRowsAfter(text, k, before, after) ==
  {[group |-> Groups[k], text |-> text, before |-> before, after |-> after,
    uses |-> UsesAfter(Groups[k], text, after)]}
    \cup GroupRows(text, k + 1, after)

GroupRows(text, k, before) ==
  IF k > Len(Groups) THEN {}
  ELSE GroupRowsAfter(text, k, before,
                      RunGroup(Groups[k], Patterns, text, before))

GroupTable == UNION {GroupRows(text, 1, NewAcc) : text \in RacePool}

NoCalls ==
  /\ lazy = [n \in LazySet |-> "uninit"]
  /\ builds = [n \in LazySet |-> 0]
  /\ pc = [t \in Threads |-> "idle"]
  /\ content = [t \in Threads |-> ""]
  /\ acc = [t \in Threads |-> NewAcc]
  /\ uses = [t \in Threads |-> <<>>]
  /\ initing = [t \in Threads |-> None]
  /\ log = <<>>
  /\ lateMade = 0

NoCron == cronIn = None /\ cronResult = None

\* several threads call concurrently
Init ==
  /\ NoCalls /\ NoCron
  /\ pool = RacePool /\ callsLeft = MaxCalls /\ callers = Threads
  /\ table = GroupTable

\* one thread makes several calls, one after the other
InitSeq ==
  /\ NoCalls /\ NoCron
  /\ pool = SeqPool /\ callsLeft = SeqCalls /\ callers = {1}
  /\ table = {}

\* one call on a workflow text
InitWide ==
  /\ NoCalls /\ NoCron
  /\ pool = WidePool /\ callsLeft = 1 /\ callers = {1}
  /\ table = {}

\* one call on the text pool texts
InitOne(texts) ==
  /\ NoCalls /\ NoCron
  /\ pool = texts /\ callsLeft = 1 /\ callers = {1}
  /\ table = {}

\* one call on a text with secret literals
InitSecret == InitOne(SecretPool)

\* one call on a text about AI
InitAi == InitOne(AiPool)

\* one call on a text with an integrations block
InitInteg == InitOne(IntegPool)

\* one call on a text of the catalog
InitCatalog == InitOne(CatalogPool)

\* one call on a text about triggers
InitTrigger == InitOne(TriggerPool)

\* one call on a text about imports
InitImport == InitOne(ImportPool)

\* is_valid_cron on a generated expression
InitCron ==
  /\ NoCalls
  /\ pool = {} /\ callsLeft = 0 /\ callers = {}
  /\ table = {}
  /\ cronIn \in {Some(in) : in \in CronInputs}
  /\ cronResult = None

\* is_valid_cron on an expression with a field for the field's own pattern
InitPattern ==
  /\ NoCalls
  /\ pool = {} /\ callsLeft = 0 /\ callers = {}
  /\ table = {}
  /\ cronIn \in {Some(in) : in \in PatternInputs}
  /\ cronResult = None

(***************************************************************************)
(* Actions                                                                 *)
(***************************************************************************)
\* n more matchers are constructed: they count once a call has returned
Constructed(n) == IF log = <<>> THEN lateMade ELSE lateMade + n

\* a call that goes on with the errors, warnings and metadata the thread's
\* previous call left
Call_KeepsResults(t, text) ==
  /\ t \in callers /\ pc[t] = "idle" /\ callsLeft > 0 /\ text \in pool
  /\ pc' = [pc EXCEPT ![t] = "imports"]
  /\ content' = [content EXCEPT ![t] = text]
  /\ uses' = [uses EXCEPT ![t] = Uses("imports", text, acc[t])]
  /\ callsLeft' = callsLeft - 1
  /\ UNCHANGED <<lazy, builds, acc, initing, log, lateMade, pool, table,
                 callers, cronVars>>

\* a thread enters validate_workflow: fresh errors, warnings and metadata
Call(t, text) ==
  /\ t \in callers /\ pc[t] = "idle" /\ callsLeft > 0 /\ text \in pool
  /\ pc' = [pc EXCEPT ![t] = "imports"]
  /\ content' = [content EXCEPT ![t] = text]
  /\ acc' = [acc EXCEPT ![t] = NewAcc]
  /\ uses' = [uses EXCEPT ![t] = Uses("imports", text, NewAcc)]
  /\ callsLeft' = callsLeft - 1
  /\ UNCHANGED <<lazy, builds, initing, log, lateMade, pool, table, callers,
                 cronVars>>

\* the thread is about to dereference a static that is not built
MustInit(t) == InGroup(t) /\ initing[t] = None /\ NextLazy(t) # None

\* a force that runs the closure whenever the static is not built yet, also
\* while another thread is running it
BeginInit_NoOnce(t) ==
  /\ MustInit(t)
  /\ lazy' = [lazy EXCEPT ![NextLazy(t)[1]] = "running"]
  /\ initing' = [initing EXCEPT ![t] = NextLazy(t)]
  /\ UNCHANGED <<builds, pc, content, acc, uses, log, lateMade, pool, table,
                 callsLeft, callers, cronVars>>

\* Lazy::force, first half: the thread finds the static it dereferences
\* not built and not being built, and starts to run its closure
BeginInit(t) ==
  /\ MustInit(t)
  /\ lazy[NextLazy(t)[1]] = "uninit"
  /\ lazy' = [lazy EXCEPT ![NextLazy(t)[1]] = "running"]
  /\ initing' = [initing EXCEPT ![t] = NextLazy(t)]
  /\ UNCHANGED <<builds, pc, content, acc, uses, log, lateMade, pool, table,
                 callsLeft, callers, cronVars>>

\* the thread is running the closure of a static
Initing(t) == initing[t] # None

\* Lazy::force, second half: the closure has built the Regex, the static
\* holds it from now on
FinishInit(t) ==
  /\ Initing(t)
  /\ lazy' = [lazy EXCEPT ![initing[t][1]] = "init"]
  /\ builds' = [builds EXCEPT ![initing[t][1]] = @ + 1]
  /\ lateMade' = Constructed(1)
  /\ initing' = [initing EXCEPT ![t] = None]
  /\ UNCHANGED <<pc, content, acc, uses, log, pool, table, callsLeft, callers,
                 cronVars>>

\* the statics the thread's group dereferences are all built
Ready(t, group) == pc[t] = group /\ initing[t] = None /\ NextLazy(t) = None

\* what the thread's group leaves: the tabulated row of the group, the text
\* and the results so far if there is one, else the group's value on the
\* statics as the thread finds them
RowOr(rows, t, result) ==
  IF rows # {} THEN CHOOSE r \in rows : TRUE
  ELSE [after |-> result, uses |-> UsesAfter(pc[t], content[t], result)]

GroupRun(t, result) ==
  RowOr({r \in table : /\ r.group = pc[t]
                       /\ r.text = content[t]
                       /\ r.before = acc[t]}, t, result)

\* the group returns; validate_workflow goes on to its next statement
Step(t, result, constructed) ==
  /\ acc' = [acc EXCEPT ![t] = GroupRun(t, result).after]
  /\ pc' = [pc EXCEPT ![t] = NextPc(pc[t])]
  /\ uses' = [uses EXCEPT ![t] = GroupRun(t, result).uses]
  /\ lateMade' = Constructed(constructed)
  /\ UNCHANGED <<lazy, builds, content, initing, log, pool, table, callsLeft,
                 callers, cronVars>>

\* validate_imports builds a matcher for every blocked module and package
ValidateImports(t) ==
  /\ Ready(t, "imports")
  /\ Step(t, validate_imports(Cells, content[t], acc[t]),
          Len(BLOCKED_NODE_MODULES) + Len(BLOCKED_NPM_PACKAGES))

ValidateWorkflowDefinition(t) ==
  /\ Ready(t, "definition")
  /\ Step(t, validate_workflow_definition(Cells, content[t], acc[t]), 0)

ValidateExecuteFunction(t) ==
  /\ Ready(t, "execute")
  /\ Step(t, validate_execute_function(Cells, content[t], acc[t]), 0)

ValidateIntegrations(t) ==
  /\ Ready(t, "integrations")
  /\ Step(t, validate_integrations(Cells, content[t], acc[t]), 0)

ValidateTrigger(t) ==
  /\ Ready(t, "trigger")
  /\ Step(t, validate_trigger(Cells, content[t], acc[t]), 0)

ValidatePricing(t) ==
  /\ Ready(t, "pricing")
  /\ Step(t, validate_pricing(Cells, content[t], acc[t]), 0)

ValidateAiUsage(t) ==
  /\ Ready(t, "ai_usage")
  /\ Step(t, validate_ai_usage(Cells, content[t], acc[t]), 0)

ValidateCommonMistakes(t) ==
  /\ Ready(t, "mistakes")
  /\ Step(t, validate_common_mistakes(Cells, content[t], acc[t]), 0)

\* every check group has run
AtReturn(t) == pc[t] = "return"

\* validate_workflow builds the ValidationResult and returns it
Return(t) ==
  /\ AtReturn(t)
  /\ log' = Append(log, [thread |-> t, text |-> content[t],
                         result |-> ValidationResult(acc[t])])
  /\ pc' = [pc EXCEPT ![t] = "idle"]
  /\ UNCHANGED <<lazy, builds, content, acc, uses, initing, lateMade, pool, table,
                 callsLeft, callers, cronVars>>

\* is_valid_cron is applied to the generated expression
CronCheck ==
  /\ cronIn # None /\ cronResult = None
  /\ cronResult' = Some(is_valid_cron(Patterns, RenderExpr(cronIn[1])))
  /\ UNCHANGED <<cronIn, callVars>>

\* a step of a thread that is inside validate_workflow
Proceed(t) ==
    \/ BeginInit(t)
    \/ FinishInit(t)
    \/ ValidateImports(t)
    \/ ValidateWorkflowDefinition(t)
    \/ ValidateExecuteFunction(t)
    \/ ValidateIntegrations(t)
    \/ ValidateTrigger(t)
    \/ ValidatePricing(t)
    \/ ValidateAiUsage(t)
    \/ ValidateCommonMistakes(t)
    \/ Return(t)

Next ==
  \E t \in Threads :
    \/ \E text \in pool : Call(t, text)
    \/ Proceed(t)

NextCron == CronCheck

Spec == Init /\ [][Next]_vars

SpecSeq == InitSeq /\ [][Next]_vars

SpecWide == InitWide /\ [][Next]_vars

SpecCron == InitCron /\ [][NextCron]_vars

SpecSecret == InitSecret /\ [][Next]_vars

SpecAi == InitAi /\ [][Next]_vars

SpecInteg == InitInteg /\ [][Next]_vars

SpecCatalog == InitCatalog /\ [][Next]_vars

SpecTrigger == InitTrigger /\ [][Next]_vars

SpecImport == InitImport /\ [][Next]_vars

SpecPattern == InitPattern /\ [][NextCron]_vars

(***************************************************************************)
(* Properties                                                              *)
(***************************************************************************)
ErrorCodes(result) ==
  {result.errors[k].code : k \in 1..Len(result.errors)}

Returned == {log[k] : k \in 1..Len(log)}

\* C1: the valid flag of every returned result is TRUE exactly when the
\* result's error list is empty, whatever the number of warnings; while a
\* call runs there is no flag that a check group could set, only the
\* errors, the warnings and the metadata.
C1_ValidIffNoErrors ==
  /\ \A e \in Returned : e.result.valid = (e.result.errors = <<>>)
  /\ \A t \in Threads :
       DOMAIN acc[t] = {"errors", "warnings", "metadata"}

\* a text with warnings and no error has been found valid
C1_Witness ==
  \E e \in Returned : e.result.valid /\ Len(e.result.warnings) >= 2

\* the thread's next step inside validate_workflow waits for nothing
CanProceed(t) ==
  \/ MustInit(t) /\ lazy[NextLazy(t)[1]] = "uninit"
  \/ Initing(t)
  \/ \E k \in 1..Len(Groups) : Ready(t, Groups[k])
  \/ AtReturn(t)

\* C2: a call of validate_workflow never stops short of returning: the
\* caller inside it can always take its next step, down to the return, and
\* once it is back its text has a result; every returned result is a full
\* ValidationResult that carries the metadata, also when valid is FALSE
\* and when the text is empty or not code at all.
C2_AlwaysReturnsWithMetadata ==
  /\ \A e \in Returned :
       /\ DOMAIN e.result = {"valid", "errors", "warnings", "metadata"}
       /\ e.result.metadata # None
  /\ \A t \in callers :
       /\ pc[t] # "idle" => CanProceed(t)
       /\ pc[t] = "idle" /\ callsLeft = 0
            => \E e \in Returned : e.text = content[t]

\* the call on the malformed text has returned: not valid, metadata there
C2_Witness ==
  \E e \in Returned :
    /\ e.text = MalformedText
    /\ ~e.result.valid
    /\ e.result.metadata # None

\* C3: validate_workflow is idempotent: whenever a caller has validated the
\* same text more than once, with calls on other texts in between or not,
\* every one of these calls returned the same result.
C3_Idempotent ==
  \A i \in 1..Len(log) : \A j \in 1..Len(log) :
    log[i].text = log[j].text => log[i].result = log[j].result

\* the first and the third call validated one text, the second another
\* text with another result
C3_Witness ==
  /\ Len(log) >= 3
  /\ log[1].text = log[3].text
  /\ log[2].text # log[1].text
  /\ log[2].result # log[1].result
  /\ log[1].result.errors # <<>>

\* what the call on the text returns when no other call runs
RunAlone(text) ==
  ValidationResult(
    (CHOOSE r \in table : r.text = text /\ r.group = "mistakes").after)

\* C4: under concurrent callers every static matcher is built at most once,
\* by one thread, it is built exactly once by the time it counts as built,
\* and a built matcher stays built; a thread runs a check group only when
\* every matcher the group dereferences is built; and every call returns
\* the result its text gets when the call runs alone.
C4_BuiltOnceSharedSafely ==
  /\ [](\A n \in LazySet :
          /\ builds[n] <= 1
          /\ (lazy[n] = "init") <=> (builds[n] = 1)
          /\ Cardinality({t \in Threads : initing[t] = Some(n)})
               = (IF lazy[n] = "running" THEN 1 ELSE 0))
  /\ [](\A t \in Threads : \A k \in 1..Len(Groups) :
          Ready(t, Groups[k])
            => \A j \in 1..Len(uses[t]) : lazy[uses[t][j]] = "init")
  /\ [](\A e \in Returned : e.result = RunAlone(e.text))
  /\ [][\A n \in LazySet : lazy[n] = "init" => lazy'[n] = "init"]_vars

\* one thread is building a matcher that another thread, inside its own
\* call, is waiting to dereference
C4_Witness ==
  \E t1 \in Threads : \E t2 \in Threads \ {t1} :
    /\ Initing(t1)
    /\ MustInit(t2)
    /\ NextLazy(t2) = initing[t1]
    /\ content[t1] # content[t2]

\* C5: matcher construction is paid once per process: once the first call
\* has returned, no call constructs a matcher.
C5_ConstructionPaidOnce == lateMade = 0

\* the fields of the generated cron expression
CronFields == cronIn[1].fields

CronChecked == cronIn # None /\ cronResult # None

\* C6: is_valid_cron rejects every expression that does not consist of
\* exactly five whitespace-separated fields, whatever the fields are.
C6_FiveFields ==
  CronChecked /\ Len(CronFields) # 5 => cronResult = Some(FALSE)

\* six fields, each of them `*`, have been rejected
C6_Witness ==
  /\ CronChecked
  /\ Len(CronFields) = 6
  /\ \A k \in 1..6 : CronFields[k] = Wild
  /\ cronResult = Some(FALSE)

\* `*`, or `*/n` with a positive n
WildLike(d) == d.kind = "star" \/ (d.kind = "step" /\ d.n >= 1)

\* the input with every wildcard and step wildcard replaced by `*`
Dewilded(in) ==
  [in EXCEPT !.fields = [k \in 1..Len(in.fields) |->
                           IF WildLike(in.fields[k]) THEN Wild
                           ELSE in.fields[k]]]

\* C7: a field that is `*` or `*/n` with a positive integer n is accepted in
\* each of the five positions whatever n is: five such fields are a valid
\* expression, and among other fields such a field counts like `*`.
C7_WildcardsAccepted ==
  CronChecked /\ Len(CronFields) = 5
    => /\ (\A k \in 1..5 : WildLike(CronFields[k])) => cronResult = Some(TRUE)
       /\ cronResult
            = Some(is_valid_cron(Patterns, RenderExpr(Dewilded(cronIn[1]))))

\* an expression with the step wildcard */99999 in the weekday field, whose
\* maximum is 6, has been accepted
C7_Witness ==
  /\ CronChecked
  /\ Len(CronFields) = 5
  /\ CronFields[5] = StepWild(99999)
  /\ cronResult = Some(TRUE)

\* the numbers of a range/list field are all at most the maximum of field i
InBounds(d, i) ==
  \A k \in 1..Len(d.segs) : \A j \in 1..Len(d.segs[k]) :
    d.segs[k][j] <= max_values[i]

\* C8: a range or list field is accepted only if every number in it is at
\* most the field's maximum (59, 23, 31, 12, 6), and no more is asked of it:
\* fields that are `*` or in-bounds ranges and lists make a valid
\* expression, also when a range's low end exceeds its high end; so
\* "0 25 * * *" and "60 0 1 1 0" are invalid.
C8_RangeListBounds ==
  CronChecked /\ Len(CronFields) = 5
    => /\ cronResult = Some(TRUE)
            => \A i \in 1..5 :
                 CronFields[i].kind = "rl" => InBounds(CronFields[i], i)
       /\ (\A i \in 1..5 :
             \/ CronFields[i].kind = "star"
             \/ CronFields[i].kind = "rl" /\ InBounds(CronFields[i], i))
            => cronResult = Some(TRUE)

\* the descending range 5-1 has been accepted in the weekday field
C8_Witness ==
  /\ CronChecked
  /\ Len(CronFields) = 5
  /\ CronFields[5] = RangeField(5, 1)
  /\ cronResult = Some(TRUE)

SdkMarker == "@workway/sdk"

\* C9: the returned result holds the error MISSING_SDK_IMPORT, once, exactly
\* when the marker @workway/sdk occurs nowhere in the text, and then valid
\* is FALSE.
C9_MissingSdkImport ==
  \A e \in Returned :
    /\ ("MISSING_SDK_IMPORT" \in ErrorCodes(e.result))
         <=> ~contains(e.text, SdkMarker)
    /\ Cardinality({k \in 1..Len(e.result.errors) :
                      e.result.errors[k].code = "MISSING_SDK_IMPORT"}) <= 1
    /\ ~contains(e.text, SdkMarker) => ~e.result.valid

\* a workflow that lacks nothing but the SDK import is invalid for that
\* reason alone
C9_Witness ==
  \E e \in Returned :
    /\ ~contains(e.text, SdkMarker)
    /\ ErrorCodes(e.result) = {"MISSING_SDK_IMPORT"}
    /\ ~e.result.valid

\* the text is a minimally complete workflow: SDK import, workflow export,
\* execute with a return, webhook trigger with service and event,
\* subscription pricing with an executions limit, no blocked module, no
\* secret-looking name
MinimallyComplete(text) ==
  /\ contains(text, SdkMarker)
  /\ contains(text, "defineWorkflow(") \/ contains(text, "export default")
  /\ contains(text, "execute(") /\ contains(text, "return")
  /\ contains(text, "trigger: webhook({")
  /\ contains(text, "service: ") /\ contains(text, "event: ")
  /\ contains(text, "pricing: {")
  /\ contains(text, "model: 'subscription'")
  /\ contains(text, "executions: ")
  /\ \A k \in 1..Len(BLOCKED_NODE_MODULES) :
       ~contains(text, "'" \o BLOCKED_NODE_MODULES[k] \o "'")
  /\ \A w \in {"key", "secret", "password", "token"} :
       ~contains(to_lowercase(text), w)

\* the text holds no schedule( call with a quoted expression that is not a
\* valid cron expression
ValidSchedule(cron) == cron = None \/ is_valid_cron(Patterns, cron[1])

NoInvalidSchedule(text) ==
  \/ ~contains(text, "schedule(")
  \/ ValidSchedule(captures1(SCHEDULE_EXPR, text))

NoErrors(result) == result.valid /\ result.errors = <<>>

\* C10 as it stands: every minimally complete workflow is returned valid,
\* with an empty error list.
C10_CompleteIsValid ==
  \A e \in Returned : MinimallyComplete(e.text) => NoErrors(e.result)

\* C10, amended: every minimally complete workflow that holds no schedule(
\* call with an invalid cron expression is returned valid, with an empty
\* error list.
C10_CompleteIsValidUnlessBadSchedule ==
  \A e \in Returned :
    MinimallyComplete(e.text) /\ NoInvalidSchedule(e.text)
      => NoErrors(e.result)

\* a minimally complete workflow that mentions a valid schedule has been
\* returned valid
C10_Witness ==
  \E e \in Returned :
    /\ MinimallyComplete(e.text)
    /\ contains(e.text, "schedule(")
    /\ NoInvalidSchedule(e.text)
    /\ NoErrors(e.result)

WarningCodes(result) ==
  {result.warnings[k].code : k \in 1..Len(result.warnings)}

\* how many entries of the list carry the code
CountCode(list, code) ==
  Cardinality({k \in 1..Len(list) : list[k].code = code})

\* the secret kinds that match somewhere in the text
SecretKindsIn(text) ==
  {k \in 1..Len(SecretKinds) :
     is_match(<<SECRET_API_KEY, SECRET_SECRET, SECRET_PASSWORD,
                SECRET_TOKEN>>[k], text)}

\* C11: the error list of every result holds exactly one HARDCODED_SECRET
\* entry when one or several secret kinds match, however often, and none
\* when no kind matches; the kinds that match are the kinds whose literals
\* the text was written with, and the near misses match no kind.
C11_OneSecretError ==
  \A e \in Returned :
    /\ CountCode(e.result.errors, "HARDCODED_SECRET")
         = (IF SecretKindsIn(e.text) = {} THEN 0 ELSE 1)
    /\ \A d \in SecretChoices :
         e.text = SecretText(d) => SecretKindsIn(e.text) = d.kinds
    /\ e.text \in SecretNearMisses => SecretKindsIn(e.text) = {}

\* all four kinds match in one text, and the result holds one entry
C11_Witness ==
  \E e \in Returned :
    /\ SecretKindsIn(e.text) = 1..Len(SecretKinds)
    /\ CountCode(e.result.errors, "HARDCODED_SECRET") = 1

\* the external AI providers, in lower case
Providers == {"claude", "gpt-4", "openai", "anthropic", "gemini"}

HasProvider(text) ==
  \E name \in Providers : contains(to_lowercase(text), name)

\* the result's metadata.has_ai
HasAi(result) == result.metadata[1].has_ai

\* C12: whenever the text contains the name of an external AI provider in
\* any letter casing the warnings hold EXTERNAL_AI_DETECTED, with has_ai
\* true or false and with errors of other groups or none; the warning
\* leaves valid alone: the errors are those of the text without the name,
\* and the complete workflow stays valid with a name in it.
C12_ExternalAiDetected ==
  \A e \in Returned :
    /\ HasProvider(e.text)
         => "EXTERNAL_AI_DETECTED" \in WarningCodes(e.result)
    /\ \A d \in AiChoices :
         e.text = AiCompose(d)
           => e.result.errors
                = validate_workflow(Patterns,
                    AiCompose([d EXCEPT !.provider = 1])).errors
    /\ e.text \in AiValidTexts => e.result.valid

\* the complete workflow with OpenAI in it: valid, warned, has_ai false
C12_Witness ==
  \E e \in Returned :
    /\ contains(e.text, "OpenAI")
    /\ e.result.valid
    /\ "EXTERNAL_AI_DETECTED" \in WarningCodes(e.result)
    /\ HasAi(e.result) = Some(FALSE)

\* the markers of AI usage
AiMarkers == {"createAIClient", "AIModels", "env.AI", "workers-ai"}

UsesAi(text) == \E marker \in AiMarkers : contains(text, marker)

\* the parts of the AI texts that hold an access to env
EnvAccessParts == {d \in AiChoices : d.env \in 2..4 \/ d.usage = 2}

\* C20: metadata.has_ai is set in every result and tells whether the text
\* holds a marker of AI usage; the warnings hold MISSING_ENV_ACCESS exactly
\* when has_ai is true and no access to env occurs anywhere in the text, so
\* never when has_ai is false; the texts written with an access to env are
\* those in which one is found.
C20_HasAiAndEnvAccess ==
  \A e \in Returned :
    /\ HasAi(e.result) = Some(UsesAi(e.text))
    /\ ("MISSING_ENV_ACCESS" \in WarningCodes(e.result))
         <=> (UsesAi(e.text) /\ ~is_match(ENV_ACCESS, e.text))
    /\ \A d \in AiChoices :
         e.text = AiCompose(d)
           => (is_match(ENV_ACCESS, e.text) <=> d \in EnvAccessParts)

\* AIModels is used without the workers-ai import and without env: has_ai
\* is true and the warning is there
C20_Witness ==
  \E e \in Returned :
    /\ contains(e.text, "AIModels")
    /\ ~contains(e.text, "env")
    /\ HasAi(e.result) = Some(TRUE)
    /\ "MISSING_ENV_ACCESS" \in WarningCodes(e.result)

Known(name) == SeqContains(KNOWN_INTEGRATIONS, name)

\* the items that lie before the first ] of the block
RECURSIVE InBlock(_, _)
InBlock(items, k) ==
  IF k > Len(items) THEN <<>>
  ELSE IF IntegItems[items[k]].kind = "scoped" THEN <<items[k]>>
  ELSE <<items[k]>> \o InBlock(items, k + 1)

\* the names of the service references among the items, in lower case
ServiceRefs(items) ==
  [k \in 1..Len(items) |-> to_lowercase(IntegItems[items[k]].name)]

ServiceItems(items) ==
  SelectSeq(items, LAMBDA i : IntegItems[i].kind # "shorthand")

\* the messages of the UNKNOWN_INTEGRATION warnings, in their order
UnknownWarned(result) ==
  [k \in 1..CountCode(result.warnings, "UNKNOWN_INTEGRATION") |->
     SelectSeq(result.warnings,
               LAMBDA w : w.code = "UNKNOWN_INTEGRATION")[k].message]

UnknownMessages(names) ==
  [k \in 1..Len(names) |-> "Unknown integration: " \o names[k]]

\* C13 as it stands: the unknown identifiers listed in the integrations
\* block, as service references or as shorthand, produce one
\* UNKNOWN_INTEGRATION warning each.
C13_UnknownListedWarned ==
  \A e \in Returned : \A items \in IntegChoices :
    e.text = IntegText(items)
      => CountCode(e.result.warnings, "UNKNOWN_INTEGRATION")
           = Cardinality({to_lowercase(IntegItems[items[k]].name) :
                            k \in {j \in 1..Len(items) :
                                     ~Known(to_lowercase(
                                        IntegItems[items[j]].name))}})

\* C13, amended: the unknown identifiers named by service references
\* before the first ] of the integrations block produce
\* UNKNOWN_INTEGRATION warnings, one per reference and in their order;
\* known identifiers and identifiers listed as quoted shorthand never
\* produce one, and without a block there is none.
C13_UnknownServiceRefsWarned ==
  \A e \in Returned :
    /\ \A items \in IntegChoices :
         e.text = IntegText(items)
           => UnknownWarned(e.result)
                = UnknownMessages(
                    SelectSeq(ServiceRefs(ServiceItems(InBlock(items, 1))),
                              LAMBDA n : ~Known(n)))
    /\ \A k \in 1..Len(KNOWN_INTEGRATIONS) :
         ~SeqContains(UnknownWarned(e.result),
                      "Unknown integration: " \o KNOWN_INTEGRATIONS[k])
    /\ e.text \in IntegBlockless => UnknownWarned(e.result) = <<>>

\* the unknown service Foo is warned about, as foo, next to the known
\* shorthand slack
C13_Witness ==
  \E e \in Returned :
    /\ e.text = IntegText(<<3, 2>>)
    /\ UnknownWarned(e.result) = <<"Unknown integration: foo">>
    /\ e.result.metadata[1].integrations = Some(<<"foo", "slack">>)

\* C17: whenever metadata.integrations is present it is a non-empty list
\* of lowercase identifiers in which no identifier occurs twice.
C17_IntegrationsDeduplicated ==
  \A e \in Returned :
    e.result.metadata[1].integrations # None
      => /\ e.result.metadata[1].integrations[1] # <<>>
         /\ \A i, j \in 1..Len(e.result.metadata[1].integrations[1]) :
              /\ to_lowercase(e.result.metadata[1].integrations[1][i])
                   = e.result.metadata[1].integrations[1][i]
              /\ e.result.metadata[1].integrations[1][i]
                   = e.result.metadata[1].integrations[1][j] => i = j

\* what a check group finds in the text when no group before it has found
\* anything: it starts from empty lists, and from the has_ai of the imports
\* group, the one value a later group reads
Alone(group, text) ==
  RunGroup(group, Patterns, text,
    IF group = "ai_usage"
    THEN [NewAcc EXCEPT !.metadata.has_ai =
            validate_imports(Patterns, text, NewAcc).metadata.has_ai]
    ELSE NewAcc)

\* what every group finds when run alone, the groups in their order
AloneAll(text) == [k \in 1..Len(Groups) |-> Alone(Groups[k], text)]

\* the errors, and the warnings, of the groups from the k-th on
RECURSIVE ErrorsAlone(_, _)
ErrorsAlone(alone, k) ==
  IF k > Len(alone) THEN <<>>
  ELSE alone[k].errors \o ErrorsAlone(alone, k + 1)

RECURSIVE WarningsAlone(_, _)
WarningsAlone(alone, k) ==
  IF k > Len(alone) THEN <<>>
  ELSE alone[k].warnings \o WarningsAlone(alone, k + 1)

\* every field of the metadata from the group that sets it
MetadataAlone(alone) ==
  [name |-> alone[2].metadata.name,
   workflow_type |-> alone[2].metadata.workflow_type,
   integrations |-> alone[4].metadata.integrations,
   trigger |-> alone[5].metadata.trigger,
   has_ai |-> alone[1].metadata.has_ai,
   pricing |-> alone[6].metadata.pricing]

\* the result is put together from what the groups find alone
Independent(result, alone) ==
  /\ result.errors = ErrorsAlone(alone, 1)
  /\ result.warnings = WarningsAlone(alone, 1)
  /\ result.metadata = Some(MetadataAlone(alone))

ErrorList(result) == [k \in 1..Len(result.errors) |-> result.errors[k].code]

\* C14: all eight check groups run on every call and none is cut short by
\* an error of an earlier group: the errors, the warnings and the metadata
\* of a result are those the groups produce when each runs alone; the
\* empty text is told of its missing SDK import, workflow export, execute
\* function, trigger and pricing alike.
C14_NoShortCircuit ==
  \A e \in Returned :
    /\ Independent(e.result, AloneAll(e.text))
    /\ e.text = ""
         => /\ ErrorList(e.result)
                = <<"MISSING_SDK_IMPORT", "NO_WORKFLOW_EXPORT",
                    "MISSING_EXECUTE", "MISSING_TRIGGER">>
            /\ "MISSING_PRICING" \in WarningCodes(e.result)

\* a text without the SDK import: the later groups report the blocked
\* module, the bad cron expression and the secret, and extract the name,
\* the trigger and the pricing
C14_Witness ==
  \E e \in Returned :
    /\ ErrorList(e.result)
         = <<"MISSING_SDK_IMPORT", "BLOCKED_NODE_MODULE", "INVALID_CRON",
             "HARDCODED_SECRET">>
    /\ e.result.metadata[1].name = Some("n")
    /\ e.result.metadata[1].trigger = Some("webhook")
    /\ e.result.metadata[1].pricing # None

\* the error codes and the warning codes in the order in which the code of
\* the check groups pushes them, with the group that pushes each
ErrorOrder ==
  <<<<"MISSING_SDK_IMPORT", 1>>, <<"BLOCKED_NODE_MODULE", 1>>,
    <<"NO_WORKFLOW_EXPORT", 2>>, <<"MISSING_EXECUTE", 3>>,
    <<"MISSING_TRIGGER", 5>>, <<"INVALID_CRON", 5>>,
    <<"HARDCODED_SECRET", 8>>>>

WarningOrder ==
  <<<<"MISSING_AI_IMPORT", 1>>, <<"INCOMPATIBLE_NPM_PACKAGE", 1>>,
    <<"MISSING_NAME", 2>>, <<"NO_RETURN", 3>>,
    <<"UNKNOWN_INTEGRATION", 4>>, <<"MISSING_SCOPES", 4>>,
    <<"INCOMPLETE_WEBHOOK", 5>>, <<"MISSING_PRICING", 6>>,
    <<"MISSING_EXECUTIONS", 6>>, <<"EXTERNAL_AI_DETECTED", 7>>,
    <<"MISSING_ENV_ACCESS", 7>>, <<"EXCESSIVE_LOGGING", 8>>,
    <<"AWAIT_IN_LOOP", 8>>, <<"EMPTY_CATCH", 8>>>>

\* the place of a code in the order, and its group
Place(order, code) == CHOOSE k \in 1..Len(order) : order[k][1] = code

GroupOf(order, code) == order[Place(order, code)][2]

\* the entries of the list follow the groups, and the order of the pushes
\* within a group
Ordered(list, order) ==
  \A i, j \in 1..Len(list) :
    i < j => /\ GroupOf(order, list[i].code) <= GroupOf(order, list[j].code)
             /\ Place(order, list[i].code) <= Place(order, list[j].code)

\* C15: the errors and the warnings of every result are each ordered by
\* the execution order of the check groups and, within a group, by the
\* order of insertion: no entry of an earlier group comes after an entry of
\* a later group.
C15_OrderedByGroup ==
  \A e \in Returned :
    /\ Ordered(e.result.errors, ErrorOrder)
    /\ Ordered(e.result.warnings, WarningOrder)

\* errors of three groups and warnings of six groups, each list in the
\* order of the groups
C15_Witness ==
  \E e \in Returned :
    /\ ErrorList(e.result)
         = <<"BLOCKED_NODE_MODULE", "INVALID_CRON", "HARDCODED_SECRET">>
    /\ Cardinality({GroupOf(WarningOrder, c) : c \in WarningCodes(e.result)})
         >= 6

ErrorCatalog == {ErrorOrder[k][1] : k \in 1..Len(ErrorOrder)}

WarningCatalog == {WarningOrder[k][1] : k \in 1..Len(WarningOrder)}

\* C16: every code has one severity: the codes found in error lists and
\* the codes found in warning lists are two disjoint parts of the catalog,
\* whatever the input; every entry of errors has type "error" and every
\* entry of warnings has type "warning".
C16_OneSeverityPerCode ==
  /\ ErrorCatalog \cap WarningCatalog = {}
  /\ \A e \in Returned :
       /\ ErrorCodes(e.result) \subseteq ErrorCatalog
       /\ WarningCodes(e.result) \subseteq WarningCatalog
       /\ \A k \in 1..Len(e.result.errors) :
            e.result.errors[k].type = "error"
       /\ \A k \in 1..Len(e.result.warnings) :
            e.result.warnings[k].type = "warning"

\* a result with three codes among its errors and twelve among its warnings
C16_Witness ==
  \E e \in Returned :
    /\ Cardinality(ErrorCodes(e.result)) = 3
    /\ Cardinality(WarningCodes(e.result)) = 12

\* the four kinds of trigger
TriggerKinds == {"webhook", "schedule", "manual", "poll"}

\* C18: whenever metadata.trigger is present it is one of webhook,
\* schedule, manual, poll, in the call style and in the object style
\* trigger: { type: '...' }; where both styles could match, the kind of
\* the call style is the one recorded.
C18_TriggerInClosedSet ==
  \A e \in Returned :
    /\ e.result.metadata[1].trigger # None
         => e.result.metadata[1].trigger[1] \in TriggerKinds
    /\ (/\ contains(e.text, "trigger: { type: 'schedule' }")
        /\ contains(e.text, "trigger: manual("))
         => e.result.metadata[1].trigger = Some("manual")

\* the text has no trigger marker
NoTriggerMarker(text) == ~contains(text, "trigger:")

\* C19: a text with no trigger marker gets exactly one MISSING_TRIGGER
\* error and none of the other trigger checks: no INCOMPLETE_WEBHOOK, no
\* INVALID_CRON and no metadata.trigger, even with a webhook( call whose
\* configuration names neither service nor event or a schedule( call with
\* a malformed expression; the pricing, AI usage and common mistakes groups
\* still run and report what they find.
C19_MissingTriggerSkipsSubChecks ==
  \A e \in Returned :
    NoTriggerMarker(e.text) =>
      /\ CountCode(e.result.errors, "MISSING_TRIGGER") = 1
      /\ "INCOMPLETE_WEBHOOK" \notin WarningCodes(e.result)
      /\ "INVALID_CRON" \notin ErrorCodes(e.result)
      /\ e.result.metadata[1].trigger = None
      /\ "MISSING_PRICING" \in WarningCodes(e.result)
           <=> ~contains(e.text, "pricing: {")
      /\ e.result.metadata[1].pricing # None
           <=> contains(e.text, "pricing: {")
      /\ "EXTERNAL_AI_DETECTED" \in WarningCodes(e.result)
           <=> contains(e.text, "openai")
      /\ "HARDCODED_SECRET" \in ErrorCodes(e.result)
           <=> contains(e.text, "password = 'p'")

\* a text without a marker, with a webhook call that names neither service
\* nor event and a schedule call with a malformed expression: the only
\* error is MISSING_TRIGGER, and the pricing group has run
C19_Witness ==
  \E e \in Returned :
    /\ e.text = "webhook({ a: 1 })\nschedule('bad')\n"
    /\ ErrorList(e.result) = <<"MISSING_SDK_IMPORT", "NO_WORKFLOW_EXPORT",
                               "MISSING_EXECUTE", "MISSING_TRIGGER">>
    /\ "MISSING_PRICING" \in WarningCodes(e.result)
    /\ e.result.metadata[1].trigger = None

\* the values a field's own pattern takes before a step: minute, hour, day
\* of the month, month, day of the week
ValueRanges == <<0..59, 0..23, 1..31, 1..12, 0..6>>

\* what the rules of a field make of the field in position i
FieldAccepted(d, i) ==
  CASE d.kind = "star" -> TRUE
    [] d.kind = "step" -> TRUE
    [] d.kind = "rl" -> InBounds(d, i)
    [] d.kind = "vstep" -> d.a \in ValueRanges[i] /\ d.b \in 0..99
    [] d.kind = "raw" -> FALSE

\* C21: a field that is neither `*`, nor a step wildcard, nor a range or
\* list is decided by the pattern of its position: value/step is accepted
\* only with the value in the field's own range (minute 0-59, hour 0-23,
\* day of the month 1-31, month 1-12, day of the week 0-6) and a step that
\* is 0 or 1-99 without a leading zero; any other text is rejected; and the
\* expression is valid only if no field fails, whatever the fields after a
\* failing one are.
C21_FieldPatternDecides ==
  CronChecked /\ Len(CronFields) = 5
    => cronResult = Some(\A i \in 1..5 : FieldAccepted(CronFields[i], i))

\* 31/99 has been accepted as day of the month among fields 1/1
C21_Witness ==
  /\ CronChecked
  /\ CronFields = <<ValueStepField(1, 1), ValueStepField(1, 1),
                    ValueStepField(31, 99), ValueStepField(1, 1),
                    ValueStepField(1, 1)>>
  /\ cronResult = Some(TRUE)

\* the import of the AI module of the SDK
WorkersAiImport == "@workway/sdk/workers-ai"

\* C22: a text that holds @workway/sdk/workers-ai holds the SDK marker and
\* a marker of AI usage with it: its result has has_ai true, no
\* MISSING_SDK_IMPORT and no MISSING_AI_IMPORT; and MISSING_AI_IMPORT is
\* among the warnings only when the text holds a marker of AI usage and
\* does not hold that import.
C22_WorkersAiImportSuffices ==
  \A e \in Returned :
    /\ contains(e.text, WorkersAiImport)
         => /\ HasAi(e.result) = Some(TRUE)
            /\ "MISSING_SDK_IMPORT" \notin ErrorCodes(e.result)
            /\ "MISSING_AI_IMPORT" \notin WarningCodes(e.result)
    /\ "MISSING_AI_IMPORT" \in WarningCodes(e.result)
         => /\ UsesAi(e.text)
            /\ ~contains(e.text, WorkersAiImport)

\* the text is the workers-ai import and nothing else: has_ai is true, and
\* neither the error nor the warning is there
C22_Witness ==
  \E e \in Returned :
    /\ e.text = ImportLines[2]
    /\ HasAi(e.result) = Some(TRUE)
    /\ "MISSING_SDK_IMPORT" \notin ErrorCodes(e.result)
    /\ "MISSING_AI_IMPORT" \notin WarningCodes(e.result)

=============================================================================
